---- MODULE Spec2Model ----
(***************************************************************************)
(* Model of the thumbgen compositing / layout engine                       *)
(* (thumbgen/utils/images.py, thumbgen/renderer/*.py, thumbgen/pipeline.py) *)
(*                                                                         *)
(* Images are modelled by their pixel dimensions (and, where a claim needs *)
(* it, by the set of pixels an operation writes).  Python's float          *)
(* arithmetic is modelled exactly where the code truncates a float product *)
(* to an int (IntMulRatio).                                                *)
(***************************************************************************)
EXTENDS Integers, Sequences, FiniteSets, TLC

(***************************************************************************)
(* Bounds of the model                                                     *)
(***************************************************************************)
MaxBase    == 3      \* base images of the compositor harness: 1..MaxBase
MaxOverlay == 3      \* overlay images of the compositor harness: 0..MaxOverlay
MaxOff     == 4      \* offsets of the compositor harness: -MaxOff..MaxOff
MaxBgDim   == 8      \* small background sides of the fit harness: 1..MaxBgDim
MaxPalette == 2      \* entries of the sampled palette: 1..MaxPalette
MaxCount   == 2      \* pixel count of a palette entry: 1..MaxCount
MaxTitleChars == 12  \* short titles of the text harness: 1..MaxTitleChars characters
MaxTitleLines == 2   \* lines of a title of the text harness: 1..MaxTitleLines
MaxBorder  == 1      \* transparent border of a dual character, per side: 0..MaxBorder
MaxRequests == 3     \* preview requests in one run of the preview harness
MaxLogoPixels == 2   \* pixels of a logo in the inversion harness: 1..MaxLogoPixels
MaxCharDim == 2      \* small character sides of the pyramid harness: 1..MaxCharDim

(***************************************************************************)
(* Program constants                                                       *)
(***************************************************************************)
CANVAS_W == 440
CANVAS_H == 590
None     == << >>          \* an absent optional argument; Some(v) a given one
Some(v)  == <<v>>

(***************************************************************************)
(* Arithmetic helpers                                                      *)
(***************************************************************************)
Max(a, b) == IF a >= b THEN a ELSE b
Min(a, b) == IF a <= b THEN a ELSE b
Abs(a)    == IF a >= 0 THEN a ELSE -a

RECURSIVE Pow2(_)
Pow2(n) == IF n <= 0 THEN 1 ELSE 2 * Pow2(n - 1)

\* floor(log2(n)) for n >= 1
RECURSIVE FloorLog2(_)
FloorLog2(n) == IF n < 2 THEN 0 ELSE 1 + FloorLog2(n \div 2)

\* floor(log2(p/q)) for p, q >= 1: the binary exponent of the double p/q
RECURSIVE ExpUp(_, _)
ExpUp(p, q) == IF 2 * q <= p THEN 1 + ExpUp(p, 2 * q) ELSE 0
RECURSIVE ExpDown(_, _)
ExpDown(p, q) == IF p < q THEN 1 + ExpDown(2 * p, q) ELSE 0
RatioExp(p, q) == IF p >= q THEN ExpUp(p, q) ELSE -ExpDown(p, q)

\* (x * 2^s) mod q
RECURSIVE ShiftMod(_, _, _)
ShiftMod(x, s, q) == IF s <= 0 THEN x % q ELSE ShiftMod((2 * x) % q, s - 1, q)

(***************************************************************************)
(* int(a * (p / q)) as CPython evaluates it on IEEE-754 doubles, for       *)
(* integers 0 <= a, p and 1 <= q below 2^12: p / q is rounded to 53 bits,  *)
(* the product is rounded again, int() truncates.  When a*p/q is not a     *)
(* whole number the rounding error (< 2^-40) cannot cross an integer, so   *)
(* the result is the exact floor.  When a*p/q is a whole number n, the     *)
(* result is n-1 exactly when the quotient was rounded down by more than   *)
(* half the gap between n and the double below it.                         *)
(* A float literal such as 0.95 is the double 95/100, so int(h * 0.95) is  *)
(* IntMulRatio(h, 95, 100).                                                *)
(***************************************************************************)
IntMulRatio(a, p, q) ==
    IF a = 0 \/ p = 0 THEN 0
    ELSE IF (a * p) % q # 0 THEN (a * p) \div q
    ELSE LET n   == (a * p) \div q
             e   == RatioExp(p, q)
             rem == ShiftMod(p % q, 52 - e, q)
             k   == FloorLog2(n)
             c   == IF n = Pow2(k) THEN 4 ELSE 2
         IN  IF rem # 0 /\ 2 * rem < q /\ c * a * rem > q * Pow2(k - e)
             THEN n - 1 ELSE n

(***************************************************************************)
(* thumbgen/utils/images.py : alpha_composite                              *)
(***************************************************************************)
\* Image.alpha_composite(im, dest) of Pillow, in place on a bw x bh image:
\* rejects a negative destination, otherwise writes the rectangle of the
\* overlay at dest, clipped to the image by the final paste.
PILAlphaCompositeInPlace(bw, bh, ow, oh, dx, dy) ==
    IF dx < 0 \/ dy < 0
    THEN [raised |-> TRUE, region |-> {}]
    ELSE [raised |-> FALSE,
          region |-> {<<px, py>> \in (0..(bw - 1)) \X (0..(bh - 1)) :
                          /\ dx <= px /\ px < dx + ow
                          /\ dy <= py /\ py < dy + oh}]

\* Mutant of OverlapRegion: the overlap extent ignores the part of the overlay
\* that lies left of / above the base (src_x, src_y are not subtracted).
OverlapRegionNoSrc(bw, bh, ow, oh, x, y) ==
    LET src_x == Max(0, -x)
        src_y == Max(0, -y)
        dst_x == Max(0, x)
        dst_y == Max(0, y)
    IN  [src_x |-> src_x, src_y |-> src_y, dst_x |-> dst_x, dst_y |-> dst_y,
         width  |-> Min(ow, bw - dst_x),
         height |-> Min(oh, bh - dst_y)]

\* src_* / dst_* / width / height as alpha_composite computes them
OverlapRegion(bw, bh, ow, oh, x, y) ==
    LET src_x == Max(0, -x)
        src_y == Max(0, -y)
        dst_x == Max(0, x)
        dst_y == Max(0, y)
    IN  [src_x |-> src_x, src_y |-> src_y, dst_x |-> dst_x, dst_y |-> dst_y,
         width  |-> Min(ow - src_x, bw - dst_x),
         height |-> Min(oh - src_y, bh - dst_y)]

\* The whole helper: the result says whether it raised, which base pixels it
\* wrote and which box of the overlay it cropped.
alpha_composite(bw, bh, ow, oh, x, y) ==
    LET r == OverlapRegion(bw, bh, ow, oh, x, y)
    IN  IF r.width > 0 /\ r.height > 0
        THEN LET res == PILAlphaCompositeInPlace(bw, bh, r.width, r.height,
                                                 r.dst_x, r.dst_y)
             IN  [raised |-> res.raised, region |-> res.region,
                  crop |-> <<r.src_x, r.src_y, r.src_x + r.width, r.src_y + r.height>>,
                  composited |-> TRUE]
        ELSE [raised |-> FALSE, region |-> {}, crop |-> <<0, 0, 0, 0>>,
              composited |-> FALSE]

(***************************************************************************)
(* thumbgen/renderer/crypto_card.py : crypto_blur_background               *)
(* thumbgen/renderer/dual_card.py   : render_dual_card, step 1             *)
(***************************************************************************)
\* canvas_w / canvas_h default to the module constants when None
CanvasArg(arg, default) == IF arg = None THEN default ELSE arg[1]

\* bg_ratio > canvas_ratio, both sides float quotients of integers below 2^12:
\* distinct quotients differ by far more than a rounding error and equal ones
\* round to the same double, so the float comparison is the exact one.
WiderThanCanvas(bw, bh, cw, ch) == bw * ch > cw * bh

\* (new_w, new_h): the size the background is resized to
CoverSize(bw, bh, cw, ch) ==
    IF WiderThanCanvas(bw, bh, cw, ch)
    THEN <<IntMulRatio(bw, ch, bh), ch>>
    ELSE <<cw, IntMulRatio(bh, cw, bw)>>

\* left / top of crypto_blur_background: d // 2, plus one when d is odd
SymmetricCropStart(d) == IF d % 2 # 0 THEN (d \div 2) + 1 ELSE d \div 2

\* left / top of render_dual_card: d // 2
CenteredCropStart(d) == d \div 2

\* Mutant of CropResult: the crop returns the source image unchanged.
CropResultUncropped(src_w, src_h, box) ==
    [size |-> <<src_w, src_h>>, covered |-> TRUE]

\* Image.crop(box): an image of the size of the box; the part of the box that
\* lies outside the source image is filled with transparent pixels.
CropResult(src_w, src_h, box) ==
    [size    |-> <<box[3] - box[1], box[4] - box[2]>>,
     covered |-> /\ box[1] >= 0 /\ box[2] >= 0
                 /\ box[3] <= src_w /\ box[4] <= src_h]

\* Image.alpha_composite(im1, im2): needs equal sizes, returns that size
ImageAlphaComposite(size1, size2) ==
    IF size1 = size2 THEN [raised |-> FALSE, size |-> size1]
    ELSE [raised |-> TRUE, size |-> size1]

crypto_blur_background(bw, bh, canvas_w_arg, canvas_h_arg) ==
    LET canvas_w == CanvasArg(canvas_w_arg, CANVAS_W)
        canvas_h == CanvasArg(canvas_h_arg, CANVAS_H)
        new      == CoverSize(bw, bh, canvas_w, canvas_h)
        left     == SymmetricCropStart(new[1] - canvas_w)
        top      == SymmetricCropStart(new[2] - canvas_h)
        box      == <<left, top, left + canvas_w, top + canvas_h>>
        cropped  == CropResult(new[1], new[2], box)
        out      == ImageAlphaComposite(cropped.size, <<canvas_w, canvas_h>>)
    IN  [new |-> new, box |-> box, raised |-> out.raised, size |-> out.size,
         opaque |-> cropped.covered, canvas |-> <<canvas_w, canvas_h>>]

dual_background(bw, bh) ==
    LET new     == CoverSize(bw, bh, CANVAS_W, CANVAS_H)
        left    == CenteredCropStart(new[1] - CANVAS_W)
        top     == CenteredCropStart(new[2] - CANVAS_H)
        box     == <<left, top, left + CANVAS_W, top + CANVAS_H>>
        cropped == CropResult(new[1], new[2], box)
    IN  [new |-> new, box |-> box, raised |-> FALSE, size |-> cropped.size,
         opaque |-> cropped.covered, canvas |-> <<CANVAS_W, CANVAS_H>>]

(***************************************************************************)
(* thumbgen/renderer/crypto_card.py : render_crypto_card, band section     *)
(***************************************************************************)
\* colors.sort(key=lambda x: x[0], reverse=True): a stable sort of the
\* (count, colour) pairs by descending count, here by insertion.
RECURSIVE InsertByCount(_, _)
InsertByCount(e, sorted) ==
    IF sorted = << >> THEN <<e>>
    ELSE IF e[1] > Head(sorted)[1] THEN <<e>> \o sorted
    ELSE <<Head(sorted)>> \o InsertByCount(e, Tail(sorted))

\* Mutant of SortByCountDesc: the palette is scanned in the order getcolors
\* returned it.
SortByCountDescMissing(colors) == colors

RECURSIVE SortByCountDesc(_)
SortByCountDesc(colors) ==
    IF colors = << >> THEN << >>
    ELSE InsertByCount(colors[Len(colors)],
                       SortByCountDesc(SubSeq(colors, 1, Len(colors) - 1)))

ColorSum(col) == col[1] + col[2] + col[3]

\* 3 * (abs(r - avg) + abs(g - avg) + abs(b - avg)) with avg = (r + g + b) / 3.
\* The float sum can only differ from the exact one by a rounding error, and
\* it equals 30 only when avg is a whole number, where it is exact.
Variance3(col) ==
    Abs(3 * col[1] - ColorSum(col)) + Abs(3 * col[2] - ColorSum(col))
        + Abs(3 * col[3] - ColorSum(col))

\* variance > 30 and (r + g + b) > 100
PassesChromaTest(col) == Variance3(col) > 90 /\ ColorSum(col) > 100

\* 30 < r + g + b < 700
PassesBrightnessTest(col) == 30 < ColorSum(col) /\ ColorSum(col) < 700

\* the first loop: first colour of the sorted palette passing the chroma test
RECURSIVE FirstChroma(_)
FirstChroma(colors) ==
    IF colors = << >> THEN None
    ELSE IF PassesChromaTest(Head(colors)[2]) THEN Head(colors)[2]
    ELSE FirstChroma(Tail(colors))

\* the second loop: first colour that is neither near-black nor near-white
RECURSIVE FirstMidBrightness(_)
FirstMidBrightness(colors) ==
    IF colors = << >> THEN None
    ELSE IF PassesBrightnessTest(Head(colors)[2]) THEN Head(colors)[2]
    ELSE FirstMidBrightness(Tail(colors))

\* lines 179-210: detected_color from the palette of the composed canvas
DetectBandColor(colors) ==
    LET sorted == SortByCountDesc(colors)
        first  == IF colors # << >> THEN FirstChroma(sorted) ELSE None
        second == IF colors # << >> /\ first = None
                  THEN FirstMidBrightness(sorted) ELSE first
    IN  IF second = None THEN <<50, 50, 50>> ELSE second

\* Mutant of BandBaseColor: the manual colour is ignored.
BandBaseColorAlwaysAuto(band_color, colors) ==
    [rgb |-> DetectBandColor(colors), detected |-> TRUE]

\* lines 176-210: the manual colour when given, the detected one otherwise
BandBaseColor(band_color, colors) ==
    IF band_color # None
    THEN [rgb |-> band_color, detected |-> FALSE]
    ELSE [rgb |-> DetectBandColor(colors), detected |-> TRUE]

\* intensity_scale = max(0.3, min(2.0, blur_scale)), in tenths
IntensityScale10(blur_scale10) == Max(3, Min(20, blur_scale10))

\* fill=(r, g, b, int(base_alpha * intensity_scale))
LayerFill(rgb, base_alpha, blur_scale10) ==
    <<rgb[1], rgb[2], rgb[3], IntMulRatio(base_alpha, IntensityScale10(blur_scale10), 10)>>

NoBand == [drawn |-> FALSE, detected |-> FALSE, rgb |-> None,
           core |-> None, mid |-> None, outer |-> None, size |-> <<0, 0>>,
           raised |-> FALSE]

\* lines 173-262: the band section on a canvas of the given size
render_band(canvas_size, blur_enabled, band_color, colors, blur_scale10) ==
    IF ~blur_enabled
    THEN [NoBand EXCEPT !.size = canvas_size]
    ELSE LET base == BandBaseColor(band_color, colors)
             out  == ImageAlphaComposite(canvas_size, canvas_size)
         IN  [drawn |-> TRUE, detected |-> base.detected, rgb |-> base.rgb,
              core  |-> LayerFill(base.rgb, 255, blur_scale10),
              mid   |-> LayerFill(base.rgb, 220, blur_scale10),
              outer |-> LayerFill(base.rgb, 240, blur_scale10),
              size  |-> out.size, raised |-> out.raised]

(***************************************************************************)
(* thumbgen/renderer/crypto_card.py : measure_text_block and the text block *)
(* section of render_crypto_card                                           *)
(*                                                                         *)
(* A block of text is [n |-> number of lines, ems10 |-> advance width of   *)
(* its widest line in tenths of an em].  The font is external to the       *)
(* program (PIL / FreeType): a line set at `size` pixels measures          *)
(* ceil(size * ems10 / 10) wide and ceil(size * 7 / 10) high.  Font ratios *)
(* are floats in the code; here they are fixed-point numbers in millionths *)
(* of the canvas height, each product rounded down to the next millionth.  *)
(***************************************************************************)
RatioUnit == 1000000

CeilDiv(a, b) == (a + b - 1) \div b

\* size = max(1, int(canvas_h * font_ratio))
FontSize(canvas_h, font_ratio) == Max(1, (canvas_h * font_ratio) \div RatioUnit)

\* ImageDraw.textbbox of one line at the given size: <<width, height>>
TextBBox(size, ems10) == <<CeilDiv(size * ems10, 10), CeilDiv(size * 7, 10)>>

\* (total_height, max_width) of the block, with the font size that was used
measure_text_block(lines, font_ratio, canvas_h) ==
    LET size == FontSize(canvas_h, font_ratio)
        bbox == TextBBox(size, lines.ems10)
    IN  [h    |-> lines.n * bbox[2] + (lines.n - 1) * IntMulRatio(canvas_h, 1, 100),
         w    |-> bbox[1],
         size |-> size]

\* lines 267-278: the geometry of the text area
TextArea(canvas_w, canvas_h, has_provider) ==
    LET text_area_start == IntMulRatio(canvas_h, 68, 100)
        text_area_end   == IntMulRatio(canvas_h, 95, 100)
    IN  [text_area_start     |-> text_area_start,
         text_area_end       |-> text_area_end,
         available_height    |-> text_area_end - text_area_start,
         available_width     |-> IntMulRatio(canvas_w, 92, 100),
         min_gap             |-> IntMulRatio(canvas_h, 4, 100),
         min_provider_height |-> IF has_provider THEN IntMulRatio(canvas_h, 3, 100) ELSE 0]

\* max_title_height = available_height - min_gap - min_provider_height
MaxTitleHeight(area) == area.available_height - area.min_gap - area.min_provider_height

\* title_ratio = 0.15 * text_scale, provider_ratio = 0.045 * text_scale
InitialTitleRatio(text_scale10)    == 15000 * text_scale10
InitialProviderRatio(text_scale10) == 4500 * text_scale10

\* fits_width and fits_height of one measurement
FitsWidth(m, area) == m.w <= area.available_width
FitsHeight(m, area, has_provider) == has_provider => m.h <= MaxTitleHeight(area)

\* Mutant of ScaleRatio: the ratio is left as it was.
ScaleRatioUnchanged(ratio, available, actual) == ratio

\* title_ratio *= (available / actual) * 0.92
ScaleRatio(ratio, available, actual) == (((ratio * available) \div actual) * 92) \div 100

\* lines 300-306: the ratio after one unsuccessful measurement
RescaledTitleRatio(ratio, m, area) ==
    IF ~FitsWidth(m, area)
    THEN ScaleRatio(ratio, area.available_width, m.w)
    ELSE ScaleRatio(ratio, MaxTitleHeight(area), m.h)

\* Mutant of RangeHasNext: the loop runs one more iteration than range(10).
RangeHasNextEleven(i) == i < 11

\* for _ in range(10): there is a next iteration after i completed ones
RangeHasNext(i) == i < 10

\* lines 337-356: the provider ratio and its measurement
ProviderFit(provider, area, canvas_h) ==
    LET base_ratio     == 45000
        m0             == measure_text_block(provider, base_ratio, canvas_h)
        bottom_padding == IntMulRatio(canvas_h, 4, 100)
        max_provider_h == Max(1, area.text_area_end - bottom_padding - area.text_area_start)
        by_width       == area.available_width * m0.h <= max_provider_h * m0.w
        num            == IF by_width THEN area.available_width ELSE max_provider_h
        den            == IF by_width THEN m0.w ELSE m0.h
        shrunk         == Max(30000, (((base_ratio * num) \div den) * 9) \div 10)
    IN  IF m0.w > area.available_width \/ m0.h > max_provider_h
        THEN [ratio |-> shrunk, m |-> measure_text_block(provider, shrunk, canvas_h)]
        ELSE [ratio |-> base_ratio, m |-> m0]

\* lines 361-376: <<title_y, prov_y>> (prov_y is None without a provider)
FinalPositioning(area, actual_title_h, has_provider, prov_h) ==
    IF has_provider
    THEN LET bottom_padding      == area.min_gap
             prov_y              == area.text_area_end - bottom_padding - prov_h
             available_for_title == prov_y - area.min_gap - area.text_area_start
             total_h             == actual_title_h + area.min_gap + prov_h
             stacked_y           == area.text_area_start
                                      + ((area.available_height - total_h) \div 2)
         IN  IF available_for_title > 0
             THEN <<area.text_area_start
                      + Max(0, (available_for_title - actual_title_h) \div 2), Some(prov_y)>>
             ELSE <<stacked_y, Some(stacked_y + actual_title_h + area.min_gap)>>
    ELSE <<area.text_area_start + ((area.available_height - actual_title_h) \div 2), None>>

\* inputs of the text harness: a glyph advances half an em on average
TextBlock(n, chars) == [n |-> n, ems10 |-> 5 * chars]
TitleChars    == (1..MaxTitleChars) \cup {40, 250, 1200}
TextCanvases  == {<<CANVAS_W, CANVAS_H>>, <<100, 150>>}
TextScales10  == {5, 10, 20}
TextProviders == {None, TextBlock(1, 8), TextBlock(1, 120)}
NoMeasure     == [h |-> 0, w |-> 0, size |-> 0]

(***************************************************************************)
(* thumbgen/pipeline.py : generate_thumbnail, pyramid layout (3 characters) *)
(***************************************************************************)
\* Mutant of ScaledToHeight: the width is not scaled.
ScaledToHeightKeepWidth(size, target_h) == <<size[1], target_h>>

\* scale = target_h / img.height; (int(img.width * scale), target_h)
ScaledToHeight(size, target_h) == <<IntMulRatio(size[1], target_h, size[2]), target_h>>

\* Image.resize(size): Pillow raises ValueError unless both sides are > 0
ResizeRaises(size) == size[1] < 1 \/ size[2] < 1

NoPlacement == [size |-> <<0, 0>>, pos |-> <<0, 0>>]

\* lines 93-139: sizes and positions of the three characters and the glow on
\* the CANVAS_W x CANVAS_H canvas, with the order in which they are composited;
\* a failing resize ends the layout where it stands
PyramidLayout(chars) ==
    LET pyramid_target_h == IntMulRatio(CANVAS_H, 95, 100)
        pyramid          == ScaledToHeight(chars[2], pyramid_target_h)
        pyramid_center_y == IntMulRatio(CANVAS_H, 38, 100)
        pyramid_x        == (CANVAS_W - pyramid[1]) \div 2
        pyramid_y        == pyramid_center_y - (pyramid[2] \div 2)
        cat_target_h     == IntMulRatio(CANVAS_H, 42, 100)
        left             == ScaledToHeight(chars[1], cat_target_h)
        right            == ScaledToHeight(chars[3], cat_target_h)
        cats_center_y    == IntMulRatio(CANVAS_H, 58, 100)
        left_center_x    == IntMulRatio(CANVAS_W, 30, 100)
        right_center_x   == IntMulRatio(CANVAS_W, 70, 100)
        pyr_part  == [size |-> pyramid, pos |-> <<pyramid_x, pyramid_y>>]
        glow_part == [size |-> pyramid, pos |-> <<pyramid_x - 25, pyramid_y - 25>>]
        left_part == [size |-> left,
                      pos  |-> <<left_center_x - (left[1] \div 2),
                                 cats_center_y - (left[2] \div 2)>>]
        right_part == [size |-> right,
                       pos  |-> <<right_center_x - (right[1] \div 2),
                                  cats_center_y - (right[2] \div 2)>>]
        none == [raised |-> TRUE, pyramid |-> NoPlacement, glow |-> NoPlacement,
                 left |-> NoPlacement, right |-> NoPlacement, order |-> << >>]
    IN  IF ResizeRaises(pyramid) THEN none
        ELSE IF ResizeRaises(left) \/ ResizeRaises(right)
        THEN [none EXCEPT !.pyramid = pyr_part, !.glow = glow_part,
                          !.order = <<"pyramid", "glow">>]
        ELSE [raised |-> FALSE, pyramid |-> pyr_part, glow |-> glow_part,
              left |-> left_part, right |-> right_part,
              order |-> <<"pyramid", "glow", "left", "right">>]

(***************************************************************************)
(* Stages of the renderers, on image sizes                                 *)
(* thumbgen/renderer/background.py, character.py, title_image.py,          *)
(* dual_card.py, crypto_card.py, thumbgen/provider_logo.py                 *)
(***************************************************************************)
\* ImageOps.fit(bg, canvas_size, ...): an image of exactly canvas_size
render_background(bg) == <<CANVAS_W, CANVAS_H>>

\* int(side * min(aw / w, ah / h)) for both sides of an image
FitInside(size, aw, ah) ==
    IF aw * size[2] <= ah * size[1]
    THEN <<IntMulRatio(size[1], aw, size[1]), IntMulRatio(size[2], aw, size[1])>>
    ELSE <<IntMulRatio(size[1], ah, size[2]), IntMulRatio(size[2], ah, size[2])>>

\* int(side * max(aw / w, ah / h)) for both sides of an image
FitAround(size, aw, ah) ==
    IF aw * size[2] >= ah * size[1]
    THEN <<IntMulRatio(size[1], aw, size[1]), IntMulRatio(size[2], aw, size[1])>>
    ELSE <<IntMulRatio(size[1], ah, size[2]), IntMulRatio(size[2], ah, size[2])>>

\* crypto_card.py lines 133-168: the character and its glow never change the
\* canvas; the resize fails only for an empty size
CryptoCharacterRaises(character, canvas_size) ==
    ResizeRaises(FitAround(character, IntMulRatio(canvas_size[1], 95, 100),
                           IntMulRatio(canvas_size[2], 85, 100)))

\* title_image.py lines 30-55 with scale = 1.0: the size the title is resized to
TitleImageSize(title_img) ==
    FitInside(title_img, IntMulRatio(CANVAS_W, 92, 100), IntMulRatio(CANVAS_H, 27, 100))

\* render_title_image: raises when the resize does, else returns the canvas
render_title_image(canvas_size, title_img) ==
    [raised |-> ResizeRaises(TitleImageSize(title_img)), size |-> canvas_size]

\* crypto_card.py lines 313-322: the title height the layout works with
actual_title_h(title_h, title_image, canvas_size) ==
    IF title_image = None
    THEN title_h
    ELSE FitInside(title_image, IntMulRatio(canvas_size[1], 92, 100),
                   IntMulRatio(canvas_size[2], 27, 100))[2]

\* title_image.py lines 30-78 with scale = 1.0 and no y_position: the size the
\* title image is resized to and the (x, y) it is composited at
place_title_image(title_img, provider_height) ==
    LET size                  == TitleImageSize(title_img)
        text_area_start       == IntMulRatio(CANVAS_H, 68, 100)
        text_area_end         == IntMulRatio(CANVAS_H, 95, 100)
        available_height_area == text_area_end - text_area_start
        min_gap               == IntMulRatio(CANVAS_H, 4, 100)
        total_h               == size[2] + min_gap + provider_height
        y == IF provider_height > 0
             THEN text_area_start + ((available_height_area - total_h) \div 2)
             ELSE text_area_start + ((available_height_area - size[2]) \div 2)
    IN  [size |-> size, pos |-> <<(CANVAS_W - size[1]) \div 2, y>>]

\* int(text_offset * canvas_height), text_offset in hundredths; int() truncates
\* towards zero
OffsetPixels(text_offset, canvas_h) ==
    IF text_offset >= 0
    THEN IntMulRatio(canvas_h, text_offset, 100)
    ELSE -IntMulRatio(canvas_h, -text_offset, 100)

NoDrawn == [title_size |-> <<0, 0>>, title_pos |-> <<0, 0>>, prov_y |-> None]

\* crypto_card.py lines 378-392: the title image goes through render_title_image,
\* the title text is drawn at title_y; the provider is drawn at
\* prov_y + int(text_offset * canvas_height), and only then is title_y moved
draw_title_and_provider(canvas_size, title_m, title_image, positions, has_provider, prov_h, text_offset) ==
    LET img == place_title_image(title_image, IF has_provider THEN prov_h ELSE 0)
    IN  [title_size |-> IF title_image # None THEN img.size ELSE <<title_m.w, title_m.h>>,
         title_pos  |-> IF title_image # None THEN img.pos
                        ELSE <<(canvas_size[1] - title_m.w) \div 2, positions[1]>>,
         prov_y     |-> IF has_provider
                        THEN Some(positions[2][1] + OffsetPixels(text_offset, canvas_size[2]))
                        ELSE None]

\* more inputs of the text harness
TextImages  == {None, <<800, 200>>}
TextOffsets == {0, 5}

\* provider_logo.py lines 65-74: _scale_logo, ratios in hundredths
ScaleLogo(logo, max_width_ratio, max_height_ratio) ==
    FitInside(logo, IntMulRatio(CANVAS_W, max_width_ratio, 100),
              IntMulRatio(CANVAS_H, max_height_ratio, 100))

\* provider_logo.py lines 107-108: position "bottom_right"
LogoPosition(scaled, margin) ==
    <<CANVAS_W - scaled[1] - margin, CANVAS_H - scaled[2] - margin>>

\* Image.convert("RGB") of an RGBA image: the alpha band is dropped
convert_RGB(pixels) == [i \in DOMAIN pixels |-> <<pixels[i][1], pixels[i][2], pixels[i][3]>>]

\* ImageOps.invert of an RGB image: every channel c becomes 255 - c
ImageOps_invert(pixels) ==
    [i \in DOMAIN pixels |-> <<255 - pixels[i][1], 255 - pixels[i][2], 255 - pixels[i][3]>>]

\* Image.convert("RGBA") of an RGB image: every pixel gets alpha 255
convert_RGBA(pixels) ==
    [i \in DOMAIN pixels |-> <<pixels[i][1], pixels[i][2], pixels[i][3], 255>>]

\* provider_logo.py lines 29-46: _invert_if_needed
invert_if_needed(logo, invert) ==
    IF ~invert THEN logo ELSE convert_RGBA(ImageOps_invert(convert_RGB(logo)))

\* inputs of the inversion harness
LogoPixelValues == {0, 255} \X {0, 255} \X {0, 255} \X {0, 128, 255}
RECURSIVE LogoPixelRows(_)
LogoPixelRows(n) ==
    IF n = 0 THEN {<< >>}
    ELSE {Append(l, q) : l \in LogoPixelRows(n - 1), q \in LogoPixelValues}

\* Mutant of scale_logo: the larger of the two fit ratios is taken.
scale_logo_max(logo, max_width_ratio, max_height_ratio) ==
    FitAround(logo, IntMulRatio(CANVAS_W, max_width_ratio, 100),
              IntMulRatio(CANVAS_H, max_height_ratio, 100))

\* provider_logo.py lines 63-74: _scale_logo, the size the logo is resized to
scale_logo(logo, max_width_ratio, max_height_ratio) ==
    ScaleLogo(logo, max_width_ratio, max_height_ratio)

\* provider_logo.py lines 95-110: _compute_position
compute_position(canvas_size, logo_size, position, margin) ==
    LET cw == canvas_size[1]
        ch == canvas_size[2]
        lw == logo_size[1]
        lh == logo_size[2]
    IN  CASE position = "top_left"     -> [raised |-> FALSE, pos |-> <<margin, margin>>]
          [] position = "top_right"    -> [raised |-> FALSE, pos |-> <<cw - lw - margin, margin>>]
          [] position = "bottom_left"  -> [raised |-> FALSE, pos |-> <<margin, ch - lh - margin>>]
          [] position = "bottom_right" ->
                [raised |-> FALSE, pos |-> <<cw - lw - margin, ch - lh - margin>>]
          [] OTHER -> [raised |-> TRUE, pos |-> <<0, 0>>]

NoLogoOut == [error |-> None, size |-> <<0, 0>>, pos |-> <<0, 0>>, composited |-> FALSE]

\* provider_logo.py lines 134-159: render_provider_logo with the configured
\* position: the resize raises ValueError on an empty size, an unknown
\* position raises ProviderLogoError, canvas.alpha_composite raises
\* ValueError on a negative destination
place_provider_logo(logo, cfg) ==
    LET scaled == scale_logo(logo, cfg.max_width_ratio, cfg.max_height_ratio)
        placed == compute_position(<<CANVAS_W, CANVAS_H>>, scaled, cfg.position, cfg.margin)
    IN  IF ResizeRaises(scaled)
        THEN [NoLogoOut EXCEPT !.error = Some("ValueError")]
        ELSE IF placed.raised
        THEN [NoLogoOut EXCEPT !.error = Some("ProviderLogoError"), !.size = scaled]
        ELSE IF placed.pos[1] < 0 \/ placed.pos[2] < 0
        THEN [error |-> Some("ValueError"), size |-> scaled, pos |-> placed.pos,
              composited |-> FALSE]
        ELSE [error |-> None, size |-> scaled, pos |-> placed.pos, composited |-> TRUE]

\* crypto_card.py lines 400-409: the provider_logo settings render_crypto_card
\* makes up for render_provider_logo
CryptoLogoConfig ==
    [max_width_ratio |-> 25, max_height_ratio |-> 12, margin |-> 18,
     position |-> "bottom_right"]

NoElements == [title |-> NoPlacement, logo |-> NoLogoOut]

\* crypto_card.py lines 379-382 and 397-413: the title image and the provider
\* logo of render_crypto_card; neither callee is given the canvas dimensions
\* (both read CANVAS_W and CANVAS_H)
card_image_elements(canvas_size, title_image, provider_logo, prov_h) ==
    [title |-> place_title_image(title_image, prov_h),
     logo  |-> place_provider_logo(provider_logo, CryptoLogoConfig)]

\* inputs of the image element harness
ElemCanvases == {<<CANVAS_W, CANVAS_H>>, <<720, 720>>, <<300, 460>>, <<880, 1180>>}
ElemTitles   == {<<800, 200>>, <<300, 300>>, <<100, 20>>}
ElemLogos    == {<<200, 80>>, <<80, 200>>, <<50, 50>>}
ElemProvHs   == {0, 19, 40}

\* inputs of the logo harness: ratios in hundredths
MaxLogoDim == 2
LogoDims      == (1..MaxLogoDim) \cup {49, 80, 200, 1000}
LogoRatios    == {12, 28, 100}
LogoMargins   == {0, 12, 300}
LogoPositions == {"top_left", "top_right", "bottom_left", "bottom_right", "center"}
LogoConfigs   == [max_width_ratio : LogoRatios, max_height_ratio : LogoRatios,
                  margin : LogoMargins, position : LogoPositions]

\* render_provider_logo: resize, then canvas.alpha_composite(scaled, dest),
\* which rejects a negative destination; the canvas itself is returned
render_provider_logo(canvas_size, logo, max_width_ratio, max_height_ratio, margin) ==
    LET scaled == ScaleLogo(logo, max_width_ratio, max_height_ratio)
        dest   == LogoPosition(scaled, margin)
    IN  [raised |-> ResizeRaises(scaled) \/ dest[1] < 0 \/ dest[2] < 0,
         size   |-> canvas_size]

RECURSIVE SumWidths(_)
SumWidths(sizes) == IF sizes = << >> THEN 0 ELSE Head(sizes)[1] + SumWidths(Tail(sizes))

\* Mutant of ScaledDown: the second pass leaves the value as it was.
ScaledDownKept(v, limit, total) == v

\* character.py lines 90-104: scale_down = (CANVAS_W * max_width_ratio) / total_width
\* applied to a width, a height or the spacing: int(v * scale_down)
ScaledDown(v, limit, total) == IntMulRatio(v, limit, total)

\* character.py lines 109-121: the row from current_x rightwards, every
\* character at y = bottom_anchor - final_h
RECURSIVE PlaceRow(_, _, _, _)
PlaceRow(sizes, current_x, spacing, bottom_anchor) ==
    IF sizes = << >> THEN << >>
    ELSE <<<<current_x, bottom_anchor - Head(sizes)[2]>>>>
             \o PlaceRow(Tail(sizes), current_x + Head(sizes)[1] + spacing,
                         spacing, bottom_anchor)

NoRow == [raised |-> FALSE, sizes |-> << >>, spacing |-> 0, total_width |-> 0,
          places |-> << >>]

\* character.py lines 56-123: render_characters; a resize to an empty size
\* raises, otherwise the resized sizes and their (x, y) are returned
render_characters(characters, target_size) ==
    LET num_chars     == Len(characters)
        bottom_anchor == IntMulRatio(CANVAS_H, 95, 100)
        spacing == IntMulRatio(CANVAS_W, 5, 100)
        first   == [i \in DOMAIN characters |->
                      LET c == characters[i]
                          d == Max(c[1], c[2])
                      IN  <<IntMulRatio(c[1], target_size, d),
                            IntMulRatio(c[2], target_size, d)>>]
        total   == SumWidths(first) + spacing * (num_chars - 1)
        limit   == IntMulRatio(CANVAS_W, 90, 100)
        second  == [i \in DOMAIN first |->
                      <<ScaledDown(first[i][1], limit, total),
                        ScaledDown(first[i][2], limit, total)>>]
        spacing2 == ScaledDown(spacing, limit, total)
        total2   == SumWidths(second) + spacing2 * (num_chars - 1)
        Row(sizes, sp, tw) ==
            [raised |-> FALSE, sizes |-> sizes, spacing |-> sp, total_width |-> tw,
             places |-> PlaceRow(sizes, (CANVAS_W - tw) \div 2, sp, bottom_anchor)]
        Raised == [NoRow EXCEPT !.raised = TRUE]
    IN  IF num_chars = 0 THEN NoRow
        ELSE IF \E i \in DOMAIN first : ResizeRaises(first[i]) THEN Raised
        ELSE IF total > limit
        THEN IF \E i \in DOMAIN second : ResizeRaises(second[i]) THEN Raised
             ELSE Row(second, spacing2, total2)
        ELSE Row(first, spacing, total)

\* An RGBA image where its transparency matters: its size and alpha, the set
\* of its pixels <<x, y>> whose alpha is not 0
SetMin(S) == CHOOSE x \in S : \A y \in S : x <= y
SetMax(S) == CHOOSE x \in S : \A y \in S : x >= y

\* Mutant of get_content_bbox: the whole image, whatever is visible in it.
get_content_bbox_whole(img) == <<0, 0, img.width, img.height>>

\* dual_card.py lines 8-26: alpha.getbbox(), (left, top, right, bottom) of the
\* pixels with a non-zero alpha; the whole image when there is none
get_content_bbox(img) ==
    IF img.alpha = {}
    THEN <<0, 0, img.width, img.height>>
    ELSE LET xs == {q[1] : q \in img.alpha}
             ys == {q[2] : q \in img.alpha}
         IN  <<SetMin(xs), SetMin(ys), SetMax(xs) + 1, SetMax(ys) + 1>>

\* Image.crop(box) for a box inside the image
crop(img, box) ==
    [width  |-> box[3] - box[1],
     height |-> box[4] - box[2],
     alpha  |-> {<<q[1] - box[1], q[2] - box[2]>> :
                   q \in {r \in img.alpha : /\ box[1] <= r[1] /\ r[1] < box[3]
                                            /\ box[2] <= r[2] /\ r[2] < box[4]}}]

\* dual_card.py lines 58-92, for one character: crop to the content, scale to
\* 52% of the canvas height, centre on center_ratio of the canvas width, top
\* at 15% of the canvas height
place_dual_character(char, center_ratio) ==
    LET cropped       == crop(char, get_content_bbox(char))
        char_target_h == IntMulRatio(CANVAS_H, 52, 100)
        w             == IntMulRatio(cropped.width, char_target_h, cropped.height)
        center_x      == IntMulRatio(CANVAS_W, center_ratio, 100)
        char_y        == IntMulRatio(CANVAS_H, 15, 100)
    IN  [raised |-> ResizeRaises(<<w, char_target_h>>),
         size   |-> <<w, char_target_h>>,
         pos    |-> <<center_x - (w \div 2), char_y>>]

\* dual_card.py lines 58-95: both characters of render_dual_card
dual_characters(char1, char2) ==
    [left  |-> place_dual_character(char1, 30),
     right |-> place_dual_character(char2, 70)]

BlankImage == [width |-> 1, height |-> 1, alpha |-> {}]
NoBorder   == <<0, 0, 0, 0>>
NoDualOut  == [left  |-> [raised |-> FALSE, size |-> <<0, 0>>, pos |-> <<0, 0>>],
               right |-> [raised |-> FALSE, size |-> <<0, 0>>, pos |-> <<0, 0>>]]

\* the image with a fully transparent border around it
Framed(img, border) ==
    [width  |-> img.width + border[1] + border[3],
     height |-> img.height + border[2] + border[4],
     alpha  |-> {<<q[1] + border[1], q[2] + border[2]>> : q \in img.alpha}]

\* inputs of the dual character harness
Filled(w, h) == [width |-> w, height |-> h, alpha |-> (0..(w - 1)) \X (0..(h - 1))]
DualContents ==
    {Filled(1, 1), Filled(3, 2), Filled(2, 3),
     [width |-> 3, height |-> 2, alpha |-> {<<0, 0>>, <<2, 1>>}],
     [width |-> 1, height |-> 401, alpha |-> {<<0, 0>>, <<0, 400>>}],
     [width |-> 2, height |-> 2, alpha |-> {}]}
DualBorders == (0..MaxBorder) \X (0..MaxBorder) \X (0..MaxBorder) \X (0..MaxBorder)

\* dual_card.py lines 60-110: the two characters scaled to 52% of the canvas
\* height and the title scaled to 85% of its width; any empty size raises
DualOverlaysRaise(char1, char2, title_image) ==
    LET char_target_h  == IntMulRatio(CANVAS_H, 52, 100)
        title_target_w == IntMulRatio(CANVAS_W, 85, 100)
    IN  \/ ResizeRaises(ScaledToHeight(char1, char_target_h))
        \/ ResizeRaises(ScaledToHeight(char2, char_target_h))
        \/ ResizeRaises(<<title_target_w,
                          IntMulRatio(title_image[2], title_target_w, title_image[1])>>)

\* inputs of the pyramid harness
CharDims  == (1..MaxCharDim) \cup {49, 512}
CharSizes == CharDims \X CharDims
NoLayout  == [raised |-> FALSE, pyramid |-> NoPlacement, glow |-> NoPlacement,
              left |-> NoPlacement, right |-> NoPlacement, order |-> << >>]

\* inputs of generate_thumbnail / render_crypto_card
PipeBackgrounds  == {<<700, 700>>, <<1920, 1080>>, <<3, 8>>}
PipeCharSizes    == {<<300, 400>>, <<1, 512>>}
PipeCharacters   ==
    {<<a>> : a \in PipeCharSizes}
        \cup {<<a, b>> : a \in PipeCharSizes, b \in PipeCharSizes}
        \cup {<<a, b, c>> : a \in PipeCharSizes, b \in PipeCharSizes, c \in PipeCharSizes}
PipeTitleImages  == {None, <<600, 200>>, <<4000, 1>>}
PipeLogos        == {None, <<200, 80>>}
PipeProviders    == {"", "PRAGMATIC PLAY"}
PipeLayouts      == {"crypto", "dual", "default", "classic"}
LogoFilesUnloaded == {"disabled", "missing", "corrupt"}
LoadFaults       == {"none", "config", "asset"}
PipePalette      == <<<<2, <<40, 80, 200>>>>, <<1, <<5, 5, 5>>>>>>
PipeBandColors   == {None, <<10, 20, 50>>, <<10, 20>>}

\* inputs of the band harness
BandColours == {<<200, 50, 50>>, <<40, 80, 200>>, <<60, 10, 10>>,
                <<128, 128, 128>>, <<5, 5, 5>>, <<250, 250, 250>>}
BlurScales10 == {2, 10, 25}
RECURSIVE Palettes(_)
Palettes(n) ==
    IF n = 0 THEN {<< >>}
    ELSE {Append(pal, <<cnt, col>>) :
            pal \in Palettes(n - 1), cnt \in 1..MaxCount, col \in BandColours}
DistinctColours(pal) ==
    \A i, j \in DOMAIN pal : i # j => pal[i][2] # pal[j][2]
BandPalettes(max) ==
    UNION {{pal \in Palettes(n) : DistinctColours(pal)} : n \in 1..max}

\* inputs of the background-fit harness
BgDims == (1..MaxBgDim) \cup {700, 1080, 1920}
FitCanvasArgs == {<<None, None>>, <<Some(720), Some(720)>>, <<Some(300), Some(460)>>}
NoFit == [new |-> <<0, 0>>, box |-> <<0, 0, 0, 0>>, raised |-> FALSE,
          size |-> <<0, 0>>, opaque |-> FALSE, canvas |-> <<0, 0>>]

(***************************************************************************)
(* Batch callers: thumbgen/cli.py `all`, generate_all.py,                   *)
(* web_ui/app.py generate_bulk                                              *)
(***************************************************************************)
\* thumbgen/errors.py: the subclasses of ThumbgenError
ThumbgenErrors == {"InvalidConfigError", "MissingAssetError", "FontLoadError",
                   "ProcessingError", "ProviderLogoError"}

\* Mutant of generate_thumbnail: the exception is not wrapped.
generate_thumbnail_unwrapped(raw) == raw

\* pipeline.py lines 39-183 as its caller sees it: the path is returned
\* ("ok"), or whatever was raised inside comes out as one ProcessingError
generate_thumbnail(raw) == IF raw = "ok" THEN "ok" ELSE "ProcessingError"

\* what one loop iteration's call does.  generate_bulk skips a folder that
\* does not exist (app.py lines 594-600) and passes settings=..., a keyword
\* generate_thumbnail does not have, so its call raises TypeError before the
\* render starts (line 612)
CallOutcome(caller, game) ==
    IF caller = "web_bulk"
    THEN IF game = "not_found" THEN "skipped" ELSE "TypeError"
    ELSE generate_thumbnail(game)

\* cli.py line 129, generate_all.py line 32: except ThumbgenError;
\* app.py line 621: except Exception
Caught(caller, exc) ==
    IF caller = "web_bulk" THEN TRUE ELSE exc \in ThumbgenErrors

\* inputs of the batch harness: what rendering each game's folder leads to
MaxGames == 2
BatchCallers == {"cli", "generate_all", "web_bulk"}
RenderOutcomes == {"ok", "InvalidConfigError", "MissingAssetError",
                   "ProviderLogoError", "ValueError", "TypeError"}
RECURSIVE GameLists(_, _)
GameLists(n, outcomes) ==
    IF n = 0 THEN {<< >>}
    ELSE {Append(l, g) : l \in GameLists(n - 1, outcomes), g \in outcomes}
BatchGames(caller, max) ==
    UNION {GameLists(n, IF caller = "web_bulk" THEN RenderOutcomes \cup {"not_found"}
                        ELSE RenderOutcomes) : n \in 0..max}

(***************************************************************************)
(* web_ui/app.py : LRUCache, an OrderedDict (oldest entry first) of          *)
(* <<key, value>> pairs behind a lock                                       *)
(***************************************************************************)
KeysOf(c) == {c[i][1] : i \in DOMAIN c}

\* key in self.cache
Contains(c, key) == key \in KeysOf(c)

IndexOf(c, key) == CHOOSE i \in DOMAIN c : c[i][1] = key

\* self.cache[key]
getitem(c, key) == c[IndexOf(c, key)][2]

\* self.cache.move_to_end(key); on a key that is not there it raises KeyError
\* and leaves the dict as it is
move_to_end(c, key) ==
    IF Contains(c, key)
    THEN Append(SelectSeq(c, LAMBDA e : e[1] # key), c[IndexOf(c, key)])
    ELSE c

\* self.cache[key] = value: an existing key keeps its place, a new one goes last
setitem(c, key, value) ==
    IF Contains(c, key)
    THEN [c EXCEPT ![IndexOf(c, key)] = <<key, value>>]
    ELSE Append(c, <<key, value>>)

\* Mutant of popitem: popitem(last=True), the newest entry goes.
popitem_last(c) == SubSeq(c, 1, Len(c) - 1)

\* self.cache.popitem(last=False)
popitem(c) == Tail(c)

\* LRUCache.get, lines 143-148
LRUCache_get(c, key) ==
    IF Contains(c, key)
    THEN [cache |-> move_to_end(c, key), ret |-> Some(getitem(c, key))]
    ELSE [cache |-> c, ret |-> None]

\* LRUCache.set, lines 150-156
LRUCache_set(c, key, value, max) ==
    LET moved  == IF Contains(c, key) THEN move_to_end(c, key) ELSE c
        stored == setitem(moved, key, value)
    IN  IF Len(stored) > max THEN popitem(stored) ELSE stored

\* loader.py lines 197-247 and 250-298 behind load_assets (lines 354-376): an
\* optional asset is loaded when it is enabled and its file is there
load_assets(disk, cfg) ==
    [provider_logo |-> IF cfg.provider_logo_enabled /\ disk.logo THEN "logo" ELSE "none",
     title_image   |-> IF cfg.title_image_enabled /\ disk.title THEN "title" ELSE "none"]

\* a call binds its positional arguments to the parameters; more arguments
\* than parameters is a TypeError
CallRaises(params, args) == Len(args) > Len(params)

\* loader.py line 354: def load_assets(game_dir, cfg)
load_assets_params == <<"game_dir", "cfg">>

\* app.py line 510: load_assets(game_dir, cfg, asset_filenames)
preview_load_args == <<"game_dir", "cfg", "asset_filenames">>

\* app.py lines 489-506: the GameConfig built from the request's settings
PreviewConfig(req) ==
    [provider_logo_enabled |-> req.provider_mode = "logo",
     title_image_enabled   |-> req.title_mode = "image"]

PreviewGames == {"Provider/GameA", "Provider/GameB"}
NoRequest  == [game_path |-> "", provider_mode |-> "text", title_mode |-> "text",
               custom |-> FALSE]
NoResponse == [status |-> "none", assets |-> None]

\* app.py lines 447-553: preview_live on the cache c; the response carries the
\* assets render_crypto_card was called with
preview_live(c, req, disk) ==
    IF req.game_path = ""
    THEN [cache |-> c, resp |-> [status |-> "400", assets |-> None]]
    ELSE IF req.game_path \notin PreviewGames
    THEN [cache |-> c, resp |-> [status |-> "404", assets |-> None]]
    ELSE LET use_cache == ~req.custom
             got       == IF use_cache THEN LRUCache_get(c, req.game_path)
                          ELSE [cache |-> c, ret |-> None]
             cfg       == PreviewConfig(req)
         IN  IF got.ret # None
             THEN [cache |-> got.cache,
                   resp  |-> [status |-> "200", assets |-> got.ret]]
             ELSE IF CallRaises(load_assets_params, preview_load_args)
             THEN [cache |-> got.cache, resp |-> [status |-> "500", assets |-> None]]
             ELSE LET loaded == load_assets(disk, cfg)
                  IN  [cache |-> IF use_cache
                                 THEN LRUCache_set(got.cache, req.game_path, loaded, 10)
                                 ELSE got.cache,
                       resp  |-> [status |-> "200", assets |-> Some(loaded)]]

\* inputs of the preview harness
PreviewRequests ==
    [game_path : PreviewGames \cup {"", "Provider/Gone"}, provider_mode : {"text", "logo"},
     title_mode : {"text", "image"}, custom : BOOLEAN]

\* Mutant of LockFree: the lock never blocks.
LockFreeAlways(holder) == TRUE

\* with self.lock: a thread enters only while nobody holds the lock
LockFree(holder) == holder = 0

\* inputs of the cache harnesses
MaxCacheSize == 2
CacheKeys    == 1..(MaxCacheSize + 1)
CacheValues  == {"a", "b"}
CacheOps     == [op : {"get"}, key : CacheKeys, value : {"a"}]
                    \cup [op : {"set"}, key : CacheKeys, value : CacheValues]
NoOp         == [op |-> "none", key |-> 0, value |-> "a"]
Threads      == {1, 2}
ThreadSizes  == {1, 2}
ThreadKeys   == {1, 2, 3}
ThreadOps    == [op : {"get"}, key : ThreadKeys, value : {"a"}]
                    \cup [op : {"set"}, key : ThreadKeys, value : CacheValues]

(***************************************************************************)
(* thumbgen/config.py : load_config.  A path is its sequence of components; *)
(* raw is the parsed config.json, a key it does not have being None         *)
(***************************************************************************)
\* Path.parent and Path.name; the parent of a bare file name is "." whose
\* name is the empty string
PathParent(path) == SubSeq(path, 1, Len(path) - 1)
PathName(path)   == IF path = << >> THEN "" ELSE path[Len(path)]

\* Mutant of DefaultOutputFilename: named after the config file itself.
DefaultOutputFilenameOfFile(path) == PathName(path) \o ".png"

\* line 196: f"{path.parent.name}.png"
DefaultOutputFilename(path) == PathName(PathParent(path)) \o ".png"

\* raw.get(key, default)
RawGet(raw, key, default) == IF raw[key] = None THEN default ELSE raw[key][1]

\* lines 120-133: _validate_title_lines
validate_title_lines(value, folder_name) ==
    CASE value \in {"absent", "empty_list"} ->
             IF folder_name # "" THEN [raised |-> FALSE, lines |-> <<folder_name>>]
             ELSE [raised |-> TRUE, lines |-> << >>]
      [] value = "not_a_list" -> [raised |-> TRUE, lines |-> << >>]
      [] OTHER -> [raised |-> FALSE, lines |-> <<"GATES OF", "OLYMPUS">>]

NoConfig == [error |-> None, output_filename |-> "", title_lines |-> << >>,
             layout |-> ""]

\* lines 182-228: the fields of the GameConfig that was returned, or the error
load_config(path, file, raw) ==
    LET folder_name == PathName(PathParent(path))
        title_lines == validate_title_lines(raw.title_lines, folder_name)
    IN  IF file # "ok" \/ title_lines.raised
        THEN [NoConfig EXCEPT !.error = Some("InvalidConfigError")]
        ELSE [error           |-> None,
              output_filename |-> RawGet(raw, "output_filename", DefaultOutputFilename(path)),
              title_lines     |-> title_lines.lines,
              layout          |-> RawGet(raw, "layout", "default")]

\* inputs of the config harness
ConfigPaths == {<<"games", "cleomeowtra", "config.json">>,
                <<"Thumbnails", "Pragmatic", "Gates of Olympus", "config.json">>,
                <<"config.json">>}
ConfigFiles == {"ok", "missing", "invalid_json"}
ConfigRaws  == [output_filename : {None, Some("thumb.png"), Some("config.json.png")},
                layout          : {None, Some("crypto"), Some("dual")},
                title_lines     : {"absent", "empty_list", "not_a_list", "strings"}]

VARIABLES
    ac_pc,        \* compositor harness: "call" before, "done" after the call
    ac_base,      \* <<width, height>> of the base image
    ac_overlay,   \* <<width, height>> of the overlay image
    ac_pos,       \* <<x, y>> offset passed as pos
    ac_touched,   \* base pixels written by the call
    ac_crop,      \* box of the overlay that was cropped
    ac_raised,    \* TRUE when the call raised
    fit_pc,       \* background-fit harness: "call" / "done"
    fit_fn,       \* "crypto" (crypto_blur_background) or "dual" (render_dual_card)
    fit_bg,       \* <<width, height>> of the source background
    fit_arg,      \* <<canvas_w, canvas_h>> arguments (None = default)
    fit_out,      \* what the fit produced
    band_pc,      \* band harness: "call" / "done"
    blur_enabled, \* render_crypto_card argument
    band_color,   \* render_crypto_card argument: None or <<r, g, b>>
    blur_scale10, \* render_crypto_card argument blur_scale, in tenths
    band_colors,  \* small.getcolors(2500): <<count, colour>> pairs of the canvas
    band_out,     \* what the band section drew
    text_pc,      \* text harness: "fit", "recalc", "provider", "position", "done"
    text_canvas,  \* <<canvas_width, canvas_height>>
    title_lines,  \* the title: a text block
    provider,     \* the provider line: None or a one-line text block
    text_scale10, \* text_scale in tenths
    title_ratio,  \* title font ratio, in millionths of the canvas height
    text_iter,    \* iterations of the title fit loop started so far
    title_fit,    \* TRUE when the fit loop left through its break
    title_meas,   \* last measure_text_block result for the title
    provider_ratio, \* provider font ratio, in millionths
    prov_meas,    \* last measure_text_block result for the provider
    text_y,       \* <<title_y, prov_y>> after the final positioning
    text_image,   \* title_image: None or the size of the title image
    text_offset,  \* text_offset, in hundredths of the canvas height
    text_drawn,   \* what was drawn: the title's size and (x, y), the provider's y
    pyr_pc,       \* pyramid harness: "call" / "done"
    pyr_chars,    \* <<width, height>> of assets.characters[0..2]
    pyr_out,      \* the layout that was composited
    pc,           \* generate_thumbnail / render_crypto_card: the next step
    entry,        \* "generate_thumbnail" or a direct "render_crypto_card" call
    layout,       \* cfg.layout
    background,   \* <<width, height>> of assets.background
    characters,   \* sizes of assets.characters
    title_image,  \* None or the size of the title image
    provider_logo, \* None or the size of the provider logo
    logo_file,    \* the provider logo on disk: "disabled", "missing", "corrupt", "ok"
    load_fault,   \* what else is wrong with the game folder: "none", "config", "asset"
    provider_text, \* cfg.provider_text
    canvas_arg,   \* <<canvas_width, canvas_height>> of render_crypto_card
    card_blur,    \* blur_enabled of render_crypto_card
    band_color_raw, \* "band_color" of config.json: None or a list
    band_rgb,     \* None or the colour the band was drawn with
    canvas,       \* None or the size of the canvas being composed
    branches,     \* composition branches entered, in order
    stages,       \* stages completed on the canvas, in order
    saves,        \* number of save_png calls
    saved_size,   \* None or the size of the image that was saved
    error,        \* None or the exception that left the call
    batch_pc,     \* batch harness: "loop", "report", "done", "aborted"
    batch_caller, \* which batch loop runs
    game_dirs,    \* per game of the list: what rendering its folder leads to
    batch_i,      \* games the loop has taken from the list
    visits,       \* per game: loop iterations spent on it
    calls,        \* per game: generate_thumbnail calls made for it
    results,      \* per game: "pending", "ok", "failed"
    success_count, \* the loop's success counter
    reported,     \* None or the <<successful, total>> the caller reports
    escaped,      \* None or the exception that left the loop
    cache_pc,     \* cache harnesses: "calls" (one caller), "threads", or "idle"
    cache,        \* self.cache: <<key, value>> pairs, oldest first
    max_size,     \* self.max_size
    cache_op,     \* the last call made: [op, key, value]
    cache_ret,    \* what the last get returned: None or Some(value)
    cache_gone,   \* the keys the last call dropped from the cache
    recent,       \* keys set and not dropped since, by last set / found get
    last_set,     \* per key: the value last set for it, None once dropped
    lock,         \* self.lock: 0 when free, else the thread holding it
    t_pc,         \* per thread: where it is in its call
    t_op,         \* per thread: the call it is making
    t_ret,        \* per thread: what its last get returned
    spec_cache,   \* the cache if every call so far had run in one piece
    spec_ret,     \* per thread: what its get returns if run in one piece
    logo_pc,      \* logo harness: "call" / "done"
    logo_img,     \* <<width, height>> of the loaded logo
    logo_cfg,     \* cfg.provider_logo
    logo_out,     \* what render_provider_logo did
    cfg_pc,       \* config harness: "call" / "done"
    cfg_path,     \* the path of config.json
    cfg_file,     \* the file: "ok", "missing", "invalid_json"
    cfg_raw,      \* the parsed JSON object
    cfg_out,      \* what load_config returned or raised
    chars_pc,     \* character row harness: "call" / "done"
    chars_in,     \* sizes of the character images
    chars_ratio,  \* height_ratio, in hundredths
    chars_out,    \* what render_characters returned or that it raised
    dual_pc,      \* dual character harness: "tight", "framed", "done"
    dual_content, \* the two characters, each with no transparent border
    dual_border,  \* per character: transparent <<left, top, right, bottom>> added
    dual_chars,   \* char1, char2 of the render_dual_card call being made
    dual_out,     \* where the last call put the two characters
    dual_first,   \* where the first call put them
    pv_pc,        \* preview harness: "idle" / "serving"
    pv_disk,      \* which optional assets the game folders hold
    pv_cache,     \* preview_asset_cache.cache
    pv_req,       \* the last request to /api/preview-live
    pv_resp,      \* the response to it: status and the assets rendered with
    pv_n,         \* requests handled so far
    inv_pc,       \* inversion harness: "call" / "done"
    inv_logo,     \* the pixels <<r, g, b, a>> of the logo
    inv_flag,     \* pl.invert_for_dark
    inv_out,      \* the pixels _invert_if_needed returned
    el_pc,        \* image element harness: "call" / "done"
    el_canvas,    \* <<canvas_width, canvas_height>> after lines 119-122
    el_title,     \* title_image: its size
    el_logo,      \* provider_logo: its size
    el_prov_h,    \* prov_h, 0 without a provider line
    el_out        \* where the title image and the logo were composited

acVars == <<ac_pc, ac_base, ac_overlay, ac_pos, ac_touched, ac_crop, ac_raised>>

fitVars == <<fit_pc, fit_fn, fit_bg, fit_arg, fit_out>>

bandVars == <<band_pc, blur_enabled, band_color, blur_scale10, band_colors, band_out>>

textVars == <<text_pc, text_canvas, title_lines, provider, text_scale10, title_ratio,
              text_iter, title_fit, title_meas, provider_ratio, prov_meas, text_y,
              text_image, text_offset, text_drawn>>

pyrVars == <<pyr_pc, pyr_chars, pyr_out>>

pipeInputs == <<entry, layout, background, characters, title_image, provider_logo,
                logo_file, load_fault, canvas_arg, card_blur, band_color_raw>>

pipeVars == <<pc, pipeInputs, provider_text, canvas, branches, stages, saves, saved_size,
              error, band_rgb>>

batchVars == <<batch_pc, batch_caller, game_dirs, batch_i, visits, calls, results,
               success_count, reported, escaped>>

coreVars == <<acVars, fitVars, bandVars, textVars, pyrVars, pipeVars>>

cacheVars == <<cache_pc, cache, max_size, cache_op, cache_ret, cache_gone, recent, last_set,
               lock, t_pc, t_op, t_ret, spec_cache, spec_ret>>

logoVars == <<logo_pc, logo_img, logo_cfg, logo_out>>

cfgVars == <<cfg_pc, cfg_path, cfg_file, cfg_raw, cfg_out>>

extVars == <<batchVars, cacheVars, logoVars, cfgVars>>

charsVars == <<chars_pc, chars_in, chars_ratio, chars_out>>

dualVars == <<dual_pc, dual_content, dual_border, dual_chars, dual_out, dual_first>>

previewVars == <<pv_pc, pv_disk, pv_cache, pv_req, pv_resp, pv_n>>

invertVars == <<inv_pc, inv_logo, inv_flag, inv_out>>

elemsVars == <<el_pc, el_canvas, el_title, el_logo, el_prov_h, el_out>>

moreVars == <<charsVars, dualVars, previewVars, invertVars, elemsVars>>

vars == <<coreVars, extVars, moreVars>>

\* frames: everything outside one harness
OnlyComposite == UNCHANGED <<fitVars, bandVars, textVars, pyrVars, pipeVars, extVars, moreVars>>
OnlyFit       == UNCHANGED <<acVars, bandVars, textVars, pyrVars, pipeVars, extVars, moreVars>>
OnlyBand      == UNCHANGED <<acVars, fitVars, textVars, pyrVars, pipeVars, extVars, moreVars>>
OnlyText      == UNCHANGED <<acVars, fitVars, bandVars, pyrVars, pipeVars, extVars, moreVars>>
OnlyPipeline  == UNCHANGED <<acVars, fitVars, bandVars, textVars, pyrVars, extVars, moreVars>>
OnlyPyramid   == UNCHANGED <<acVars, fitVars, bandVars, textVars, pipeVars, extVars, moreVars>>
OnlyBatch     == UNCHANGED <<coreVars, cacheVars, logoVars, cfgVars, moreVars>>
OnlyCache     == UNCHANGED <<coreVars, batchVars, logoVars, cfgVars, moreVars>>
OnlyLogo      == UNCHANGED <<coreVars, batchVars, cacheVars, cfgVars, moreVars>>
OnlyConfig    == UNCHANGED <<coreVars, batchVars, cacheVars, logoVars, moreVars>>
OnlyChars     == UNCHANGED <<coreVars, extVars, dualVars, previewVars, invertVars, elemsVars>>
OnlyDual      == UNCHANGED <<coreVars, extVars, charsVars, previewVars, invertVars, elemsVars>>
OnlyPreview   == UNCHANGED <<coreVars, extVars, charsVars, dualVars, invertVars, elemsVars>>
OnlyInvert    == UNCHANGED <<coreVars, extVars, charsVars, dualVars, previewVars, elemsVars>>
OnlyElems     == UNCHANGED <<coreVars, extVars, charsVars, dualVars, previewVars, invertVars>>

BatchIdle ==
    /\ batch_pc = "idle"
    /\ batch_caller = "cli"
    /\ game_dirs = << >>
    /\ batch_i = 0
    /\ visits = << >>
    /\ calls = << >>
    /\ results = << >>
    /\ success_count = 0
    /\ reported = None
    /\ escaped = None

ThreadsIdle ==
    /\ lock = 0
    /\ t_pc = [t \in Threads |-> "idle"]
    /\ t_op = [t \in Threads |-> NoOp]
    /\ t_ret = [t \in Threads |-> None]
    /\ spec_cache = << >>
    /\ spec_ret = [t \in Threads |-> None]

CallerIdle ==
    /\ cache_op = NoOp
    /\ cache_ret = None
    /\ cache_gone = {}
    /\ recent = << >>
    /\ last_set = [k \in CacheKeys |-> None]

CacheIdle ==
    /\ cache_pc = "idle"
    /\ cache = << >>
    /\ max_size = 1
    /\ CallerIdle
    /\ ThreadsIdle

LogoIdle ==
    /\ logo_pc = "idle"
    /\ logo_img = <<1, 1>>
    /\ logo_cfg = [max_width_ratio |-> 28, max_height_ratio |-> 12, margin |-> 12,
                   position |-> "bottom_right"]
    /\ logo_out = NoLogoOut

CfgIdle ==
    /\ cfg_pc = "idle"
    /\ cfg_path = <<"config.json">>
    /\ cfg_file = "ok"
    /\ cfg_raw = [output_filename |-> None, layout |-> None, title_lines |-> "absent"]
    /\ cfg_out = NoConfig

ExtIdle == BatchIdle /\ CacheIdle /\ LogoIdle /\ CfgIdle

CharsIdle ==
    /\ chars_pc = "idle"
    /\ chars_in = << >>
    /\ chars_ratio = 72
    /\ chars_out = NoRow

DualIdle ==
    /\ dual_pc = "idle"
    /\ dual_content = <<BlankImage, BlankImage>>
    /\ dual_border = <<NoBorder, NoBorder>>
    /\ dual_chars = <<BlankImage, BlankImage>>
    /\ dual_out = NoDualOut
    /\ dual_first = NoDualOut

PreviewIdle ==
    /\ pv_pc = "idle"
    /\ pv_disk = [logo |-> FALSE, title |-> FALSE]
    /\ pv_cache = << >>
    /\ pv_req = NoRequest
    /\ pv_resp = NoResponse
    /\ pv_n = 0

InvertIdle ==
    /\ inv_pc = "idle"
    /\ inv_logo = << >>
    /\ inv_flag = FALSE
    /\ inv_out = << >>

ElemsIdle ==
    /\ el_pc = "idle"
    /\ el_canvas = <<CANVAS_W, CANVAS_H>>
    /\ el_title = <<1, 1>>
    /\ el_logo = <<1, 1>>
    /\ el_prov_h = 0
    /\ el_out = NoElements

MoreIdle == CharsIdle /\ DualIdle /\ PreviewIdle /\ InvertIdle /\ ElemsIdle

PipeIdle ==
    /\ pc = "idle"
    /\ entry = "generate_thumbnail"
    /\ layout = "default"
    /\ background = <<1, 1>>
    /\ characters = <<<<1, 1>>>>
    /\ title_image = None
    /\ provider_logo = None
    /\ logo_file = "disabled"
    /\ load_fault = "none"
    /\ provider_text = ""
    /\ canvas_arg = <<None, None>>
    /\ card_blur = TRUE
    /\ band_color_raw = None
    /\ band_rgb = None
    /\ canvas = None
    /\ branches = << >>
    /\ stages = << >>
    /\ saves = 0
    /\ saved_size = None
    /\ error = None

AcIdle ==
    /\ ac_pc = "idle"
    /\ ac_base = <<1, 1>>
    /\ ac_overlay = <<1, 1>>
    /\ ac_pos = <<0, 0>>
    /\ ac_touched = {}
    /\ ac_crop = <<0, 0, 0, 0>>
    /\ ac_raised = FALSE

FitIdle ==
    /\ fit_pc = "idle"
    /\ fit_fn = "crypto"
    /\ fit_bg = <<1, 1>>
    /\ fit_arg = <<None, None>>
    /\ fit_out = NoFit

BandIdle ==
    /\ band_pc = "idle"
    /\ blur_enabled = TRUE
    /\ band_color = None
    /\ blur_scale10 = 10
    /\ band_colors = <<<<1, <<128, 128, 128>>>>>>
    /\ band_out = NoBand

TextIdle ==
    /\ text_pc = "idle"
    /\ text_canvas = <<CANVAS_W, CANVAS_H>>
    /\ title_lines = TextBlock(1, 1)
    /\ provider = None
    /\ text_scale10 = 10
    /\ title_ratio = InitialTitleRatio(10)
    /\ text_iter = 0
    /\ title_fit = FALSE
    /\ title_meas = NoMeasure
    /\ provider_ratio = InitialProviderRatio(10)
    /\ prov_meas = NoMeasure
    /\ text_y = <<0, None>>
    /\ text_image = None
    /\ text_offset = 0
    /\ text_drawn = NoDrawn

PyrIdle ==
    /\ pyr_pc = "idle"
    /\ pyr_chars = <<<<1, 1>>, <<1, 1>>, <<1, 1>>>>
    /\ pyr_out = NoLayout

InitComposite ==
    /\ PipeIdle
    /\ ExtIdle
    /\ MoreIdle
    /\ PyrIdle
    /\ FitIdle
    /\ BandIdle
    /\ TextIdle
    /\ ac_pc = "call"
    /\ ac_base \in (1..MaxBase) \X (1..MaxBase)
    /\ ac_overlay \in (0..MaxOverlay) \X (0..MaxOverlay)
    /\ ac_pos \in ((-MaxOff)..MaxOff) \X ((-MaxOff)..MaxOff)
    /\ ac_touched = {}
    /\ ac_crop = <<0, 0, 0, 0>>
    /\ ac_raised = FALSE

AlphaCompositeCall ==
    /\ ac_pc = "call"
    /\ LET res == alpha_composite(ac_base[1], ac_base[2], ac_overlay[1], ac_overlay[2],
                                  ac_pos[1], ac_pos[2])
       IN  /\ ac_touched' = res.region
           /\ ac_crop' = res.crop
           /\ ac_raised' = res.raised
    /\ ac_pc' = "done"
    /\ UNCHANGED <<ac_base, ac_overlay, ac_pos>>
    /\ OnlyComposite

NextComposite == AlphaCompositeCall

SpecComposite == InitComposite /\ [][NextComposite]_vars

(***************************************************************************)
(* Background-fit harness                                                  *)
(***************************************************************************)
InitFit ==
    /\ PipeIdle
    /\ ExtIdle
    /\ MoreIdle
    /\ PyrIdle
    /\ AcIdle
    /\ BandIdle
    /\ TextIdle
    /\ fit_pc = "call"
    /\ fit_fn \in {"crypto", "dual"}
    /\ fit_bg \in BgDims \X BgDims
    /\ fit_arg \in (IF fit_fn = "crypto" THEN FitCanvasArgs ELSE {<<None, None>>})
    /\ fit_out = NoFit

CryptoBlurBackgroundCall ==
    /\ fit_pc = "call"
    /\ fit_fn = "crypto"
    /\ fit_out' = crypto_blur_background(fit_bg[1], fit_bg[2], fit_arg[1], fit_arg[2])
    /\ fit_pc' = "done"
    /\ UNCHANGED <<fit_fn, fit_bg, fit_arg>>
    /\ OnlyFit

DualBackgroundCall ==
    /\ fit_pc = "call"
    /\ fit_fn = "dual"
    /\ fit_out' = dual_background(fit_bg[1], fit_bg[2])
    /\ fit_pc' = "done"
    /\ UNCHANGED <<fit_fn, fit_bg, fit_arg>>
    /\ OnlyFit

NextFit == CryptoBlurBackgroundCall \/ DualBackgroundCall

SpecFit == InitFit /\ [][NextFit]_vars

(***************************************************************************)
(* Band harness: the band section of render_crypto_card on a 440x590 canvas *)
(***************************************************************************)
InitBand ==
    /\ PipeIdle
    /\ ExtIdle
    /\ MoreIdle
    /\ PyrIdle
    /\ AcIdle
    /\ FitIdle
    /\ TextIdle
    /\ band_pc = "call"
    /\ blur_enabled \in BOOLEAN
    /\ band_color \in (IF blur_enabled THEN {None, <<200, 50, 50>>, <<128, 128, 128>>}
                       ELSE {None})
    /\ blur_scale10 \in (IF band_color # None THEN BlurScales10 ELSE {10})
    /\ band_colors \in BandPalettes(MaxPalette)
    /\ band_out = NoBand

RenderBandCall ==
    /\ band_pc = "call"
    /\ band_out' = render_band(<<CANVAS_W, CANVAS_H>>, blur_enabled, band_color,
                               band_colors, blur_scale10)
    /\ band_pc' = "done"
    /\ UNCHANGED <<blur_enabled, band_color, blur_scale10, band_colors>>
    /\ OnlyBand

NextBand == RenderBandCall

SpecBand == InitBand /\ [][NextBand]_vars

(***************************************************************************)
(* Text harness: the text block section of render_crypto_card, one action   *)
(* per loop iteration and per later step                                    *)
(***************************************************************************)
HasProvider == provider # None
Area == TextArea(text_canvas[1], text_canvas[2], HasProvider)

InitText ==
    /\ PipeIdle
    /\ ExtIdle
    /\ MoreIdle
    /\ PyrIdle
    /\ AcIdle
    /\ FitIdle
    /\ BandIdle
    /\ text_pc = "fit"
    /\ text_canvas \in TextCanvases
    /\ title_lines \in {TextBlock(n, c) : n \in 1..MaxTitleLines, c \in TitleChars}
    /\ provider \in TextProviders
    /\ text_scale10 \in TextScales10
    /\ title_ratio = InitialTitleRatio(text_scale10)
    /\ text_iter = 0
    /\ title_fit = FALSE
    /\ title_meas = NoMeasure
    /\ provider_ratio = InitialProviderRatio(text_scale10)
    /\ prov_meas = NoMeasure
    /\ text_y = <<0, None>>
    /\ text_image \in TextImages
    /\ text_offset \in TextOffsets
    /\ text_drawn = NoDrawn

\* lines 283-306: one pass through the body of the loop
TitleFitIteration ==
    /\ text_pc = "fit"
    /\ RangeHasNext(text_iter)
    /\ LET m == measure_text_block(title_lines, title_ratio, text_canvas[2])
       IN  /\ title_meas' = m
           /\ IF FitsWidth(m, Area) /\ FitsHeight(m, Area, HasProvider)
              THEN /\ title_fit' = TRUE
                   /\ text_pc' = "recalc"
                   /\ UNCHANGED title_ratio
              ELSE /\ title_ratio' = RescaledTitleRatio(title_ratio, m, Area)
                   /\ UNCHANGED <<title_fit, text_pc>>
    /\ text_iter' = text_iter + 1
    /\ UNCHANGED <<text_image, text_offset, text_drawn>>
    /\ UNCHANGED <<text_canvas, title_lines, provider, text_scale10, provider_ratio,
                   prov_meas, text_y>>
    /\ OnlyText

\* line 283: range(10) is exhausted, the loop ends without a break
TitleFitExhausted ==
    /\ text_pc = "fit"
    /\ ~RangeHasNext(text_iter)
    /\ text_pc' = "recalc"
    /\ UNCHANGED <<text_image, text_offset, text_drawn>>
    /\ UNCHANGED <<text_canvas, title_lines, provider, text_scale10, title_ratio,
                   text_iter, title_fit, title_meas, provider_ratio, prov_meas, text_y>>
    /\ OnlyText

\* lines 309-311
RecalculateTitle ==
    /\ text_pc = "recalc"
    /\ title_meas' = measure_text_block(title_lines, title_ratio, text_canvas[2])
    /\ text_pc' = "provider"
    /\ UNCHANGED <<text_image, text_offset, text_drawn>>
    /\ UNCHANGED <<text_canvas, title_lines, provider, text_scale10, title_ratio,
                   text_iter, title_fit, provider_ratio, prov_meas, text_y>>
    /\ OnlyText

\* lines 327-356
ProviderStep ==
    /\ text_pc = "provider"
    /\ IF HasProvider
       THEN LET fit == ProviderFit(provider, Area, text_canvas[2])
            IN  /\ provider_ratio' = fit.ratio
                /\ prov_meas' = fit.m
       ELSE UNCHANGED <<provider_ratio, prov_meas>>
    /\ text_pc' = "position"
    /\ UNCHANGED <<text_image, text_offset, text_drawn>>
    /\ UNCHANGED <<text_canvas, title_lines, provider, text_scale10, title_ratio,
                   text_iter, title_fit, title_meas, text_y>>
    /\ OnlyText

\* lines 361-376
PositionStep ==
    /\ text_pc = "position"
    /\ text_y' = FinalPositioning(Area,
                                  actual_title_h(title_meas.h, text_image, text_canvas),
                                  HasProvider, prov_meas.h)
    /\ text_pc' = "draw"
    /\ UNCHANGED <<text_image, text_offset, text_drawn>>
    /\ UNCHANGED <<text_canvas, title_lines, provider, text_scale10, title_ratio,
                   text_iter, title_fit, title_meas, provider_ratio, prov_meas>>
    /\ OnlyText

\* lines 378-392: the title (image or text) is drawn, then the provider
DrawStep ==
    /\ text_pc = "draw"
    /\ text_drawn' = draw_title_and_provider(text_canvas, title_meas, text_image, text_y,
                                             HasProvider, prov_meas.h, text_offset)
    /\ text_pc' = "done"
    /\ UNCHANGED <<text_canvas, title_lines, provider, text_scale10, title_ratio,
                   text_iter, title_fit, title_meas, provider_ratio, prov_meas, text_y,
                   text_image, text_offset>>
    /\ OnlyText

NextText ==
    \/ TitleFitIteration
    \/ TitleFitExhausted
    \/ RecalculateTitle
    \/ ProviderStep
    \/ PositionStep
    \/ DrawStep

SpecText == InitText /\ [][NextText]_vars

(***************************************************************************)
(* thumbgen/pipeline.py : generate_thumbnail, and render_crypto_card called *)
(* directly with its own canvas_width / canvas_height (as web_ui/app.py     *)
(* calls it for a preview).  One action per stage; an exception anywhere    *)
(* ends the render in "failed" (the ProcessingError of lines 181-183).      *)
(***************************************************************************)
Init ==
    /\ AcIdle /\ FitIdle /\ BandIdle /\ TextIdle /\ PyrIdle
    /\ ExtIdle
    /\ MoreIdle
    /\ entry \in {"generate_thumbnail", "render_crypto_card"}
    /\ pc = IF entry = "generate_thumbnail" THEN "load" ELSE "crypto_bg"
    /\ layout \in (IF entry = "generate_thumbnail" THEN PipeLayouts ELSE {"crypto"})
    /\ background \in PipeBackgrounds
    /\ characters \in (IF entry = "generate_thumbnail" THEN PipeCharacters
                       ELSE {<<a>> : a \in PipeCharSizes})
    /\ title_image \in PipeTitleImages
    /\ provider_logo \in PipeLogos
    /\ logo_file \in (IF provider_logo # None THEN {"ok"}
                      ELSE IF entry = "generate_thumbnail" THEN LogoFilesUnloaded
                      ELSE {"disabled"})
    /\ load_fault \in (IF entry = "generate_thumbnail" THEN LoadFaults ELSE {"none"})
    /\ provider_text \in PipeProviders
    /\ canvas_arg \in (IF entry = "generate_thumbnail" THEN {<<None, None>>}
                       ELSE FitCanvasArgs)
    /\ card_blur \in (IF entry = "generate_thumbnail" THEN {TRUE} ELSE BOOLEAN)
    /\ band_color_raw \in (IF layout = "crypto" THEN PipeBandColors ELSE {None})
    /\ band_rgb = None
    /\ canvas = None
    /\ branches = IF entry = "generate_thumbnail" THEN << >> ELSE <<"crypto">>
    /\ stages = << >>
    /\ saves = 0
    /\ saved_size = None
    /\ error = None

\* a step that leaves everything but pc, canvas and stages alone
StageFrame == UNCHANGED <<band_rgb, pipeInputs, provider_text, branches, saves, saved_size>>

\* pipeline.py lines 181-183: generate_thumbnail wraps whatever was raised in
\* one ProcessingError (raise ... from exc); render_crypto_card called
\* directly lets the exception through
Raise(cause) ==
    Some([raised |-> IF entry = "generate_thumbnail" THEN "ProcessingError" ELSE cause,
          cause  |-> cause])

\* pipeline.py lines 40-44: load_config, then load_assets; a provider logo that
\* is not there loads as None, one that cannot be decoded raises
\* (loader.py lines 228-231, 244-247)
LoadOutcome ==
    IF load_fault = "config" THEN "InvalidConfigError"
    ELSE IF load_fault = "asset" THEN "MissingAssetError"
    ELSE IF logo_file = "corrupt" THEN "ProviderLogoError"
    ELSE "ok"

\* Mutant of StageResult: the exception is recorded but the render goes on.
StageResultSwallowed(raised, name, size, next) ==
    /\ pc' = next /\ canvas' = size /\ stages' = Append(stages, name)
    /\ error' = IF raised THEN Raise("ValueError") ELSE error

\* the outcome of a stage: the exception, or the stage's canvas and next step
StageResult(raised, name, size, next) ==
    IF raised
    THEN pc' = "failed" /\ error' = Raise("ValueError") /\ UNCHANGED <<canvas, stages>>
    ELSE pc' = next /\ canvas' = size /\ stages' = Append(stages, name) /\ UNCHANGED error

\* lines 40-44: load_config and load_assets succeeded
LoadAssets ==
    /\ pc = "load"
    /\ LoadOutcome = "ok"
    /\ pc' = "dispatch"
    /\ UNCHANGED <<canvas, stages, error>>
    /\ StageFrame /\ OnlyPipeline

\* lines 40-44: load_config or load_assets raised (bad config, missing asset)
LoadFails ==
    /\ pc = "load"
    /\ LoadOutcome # "ok"
    /\ pc' = "failed"
    /\ error' = Raise(LoadOutcome)
    /\ UNCHANGED <<canvas, stages>>
    /\ StageFrame /\ OnlyPipeline

\* line 52
SelectCrypto ==
    /\ pc = "dispatch"
    /\ layout = "crypto"
    /\ pc' = "crypto_bg"
    /\ branches' = Append(branches, "crypto")
    /\ UNCHANGED <<band_rgb, pipeInputs, provider_text, canvas, stages, saves, saved_size, error>>
    /\ OnlyPipeline

\* lines 69-73
SelectDual ==
    /\ pc = "dispatch"
    /\ layout # "crypto"
    /\ layout = "dual" /\ Len(characters) >= 2
    /\ pc' = IF title_image = None THEN "failed" ELSE "dual_bg"
    /\ error' = IF title_image = None THEN Raise("ProcessingError") ELSE error
    /\ branches' = Append(branches, "dual")
    /\ UNCHANGED <<band_rgb, pipeInputs, provider_text, canvas, stages, saves, saved_size>>
    /\ OnlyPipeline

\* lines 87-90: neither of the two tests held
SelectDefault ==
    /\ pc = "dispatch"
    /\ layout # "crypto"
    /\ ~(layout = "dual" /\ Len(characters) >= 2)
    /\ pc' = "default_bg"
    /\ UNCHANGED <<band_rgb, pipeInputs, provider_text, canvas, branches, stages, saves, saved_size,
                   error>>
    /\ OnlyPipeline

\* the arguments render_crypto_card receives: generate_thumbnail passes
\* neither title_image nor provider_logo (lines 55-61)
CardTitleImage   == IF entry = "render_crypto_card" THEN title_image ELSE None
CardProviderLogo == IF entry = "render_crypto_card" THEN provider_logo ELSE None

\* config.py lines 210-214: cfg.band_color, a list of three becomes the colour
parse_band_color(raw) == IF Len(raw) = 3 THEN raw ELSE None

\* band_color of render_crypto_card: the call of pipeline.py lines 55-61 does
\* not pass it, the preview of app.py (lines 519, 529) passes cfg.band_color
CardBandColor ==
    IF entry = "render_crypto_card" THEN parse_band_color(band_color_raw) ELSE None

\* crypto_card.py lines 120-125
CryptoBackground ==
    /\ pc = "crypto_bg"
    /\ LET out == crypto_blur_background(background[1], background[2],
                                         canvas_arg[1], canvas_arg[2])
       IN  StageResult(out.raised, "background", out.size, "crypto_char")
    /\ StageFrame /\ OnlyPipeline

\* crypto_card.py lines 133-168
CryptoCharacter ==
    /\ pc = "crypto_char"
    /\ StageResult(CryptoCharacterRaises(characters[1], canvas), "character",
                   canvas, "crypto_band")
    /\ StageFrame /\ OnlyPipeline

\* crypto_card.py lines 173-262
CryptoBand ==
    /\ pc = "crypto_band"
    /\ LET out == render_band(canvas, card_blur, CardBandColor, PipePalette, 10)
       IN  /\ StageResult(out.raised, "band", out.size, "crypto_text")
           /\ band_rgb' = out.rgb
    /\ UNCHANGED <<pipeInputs, provider_text, branches, saves, saved_size>>
    /\ OnlyPipeline

\* crypto_card.py lines 264-392: the title image or the text, then the provider
CryptoText ==
    /\ pc = "crypto_text"
    /\ IF CardTitleImage # None
       THEN LET out == render_title_image(canvas, CardTitleImage)
            IN  StageResult(out.raised, "title", out.size, "crypto_logo")
       ELSE StageResult(FALSE, "title", canvas, "crypto_logo")
    /\ StageFrame /\ OnlyPipeline

\* crypto_card.py lines 397-415, then pipeline.py lines 63-64 or the caller
CryptoLogo ==
    /\ pc = "crypto_logo"
    /\ LET next == IF entry = "render_crypto_card" THEN "returned" ELSE "save"
       IN  IF CardProviderLogo # None
           THEN LET out == render_provider_logo(canvas, CardProviderLogo, 25, 12, 18)
                IN  StageResult(out.raised, "provider_logo", out.size, next)
           ELSE StageResult(FALSE, "provider_logo", canvas, next)
    /\ StageFrame /\ OnlyPipeline

\* dual_card.py lines 43-56
DualBackground ==
    /\ pc = "dual_bg"
    /\ LET out == dual_background(background[1], background[2])
       IN  StageResult(out.raised, "background", out.size, "dual_overlays")
    /\ StageFrame /\ OnlyPipeline

\* dual_card.py lines 60-112
DualOverlays ==
    /\ pc = "dual_overlays"
    /\ StageResult(DualOverlaysRaise(characters[1], characters[2], title_image),
                   "character", canvas, "save")
    /\ StageFrame /\ OnlyPipeline

\* pipeline.py line 90
DefaultBackground ==
    /\ pc = "default_bg"
    /\ StageResult(FALSE, "background", render_background(background), "default_chars")
    /\ StageFrame /\ OnlyPipeline

\* pipeline.py lines 93-139
PyramidCharacters ==
    /\ pc = "default_chars"
    /\ Len(characters) = 3
    /\ StageResult(PyramidLayout(characters).raised, "character", canvas, "default_title")
    /\ branches' = Append(branches, "pyramid")
    /\ UNCHANGED <<band_rgb, pipeInputs, provider_text, saves, saved_size>>
    /\ OnlyPipeline

\* pipeline.py lines 141-147
SideBySideCharacters ==
    /\ pc = "default_chars"
    /\ Len(characters) # 3
    /\ StageResult(render_characters(characters, IntMulRatio(CANVAS_H, 72, 100)).raised,
                   "character", canvas, "default_title")
    /\ branches' = Append(branches, "side_by_side")
    /\ UNCHANGED <<band_rgb, pipeInputs, provider_text, saves, saved_size>>
    /\ OnlyPipeline

\* pipeline.py lines 152-158: render_title_image has no parameter
\* max_width_ratio, so the call raises TypeError
DefaultTitleImage ==
    /\ pc = "default_title"
    /\ title_image # None
    /\ pc' = "failed"
    /\ error' = Raise("TypeError")
    /\ UNCHANGED <<canvas, stages>>
    /\ StageFrame /\ OnlyPipeline

\* pipeline.py lines 159-169
DefaultTextBlock ==
    /\ pc = "default_title"
    /\ title_image = None
    /\ provider_text' = IF provider_logo # None THEN "" ELSE provider_text
    /\ StageResult(FALSE, "title", canvas, "default_logo")
    /\ UNCHANGED <<band_rgb, pipeInputs, branches, saves, saved_size>>
    /\ OnlyPipeline

\* pipeline.py lines 172-173
DefaultLogo ==
    /\ pc = "default_logo"
    /\ IF provider_logo # None
       THEN LET out == render_provider_logo(canvas, provider_logo, 28, 12, 12)
            IN  StageResult(out.raised, "provider_logo", out.size, "save")
       ELSE StageResult(FALSE, "provider_logo", canvas, "save")
    /\ StageFrame /\ OnlyPipeline

\* pipeline.py lines 63-66, 82-85, 176-179: save_png and return
SavePng ==
    /\ pc = "save"
    /\ saves' = saves + 1
    /\ saved_size' = canvas
    /\ pc' = "done"
    /\ UNCHANGED <<band_rgb, pipeInputs, provider_text, canvas, branches, stages, error>>
    /\ OnlyPipeline

Next ==
    \/ LoadAssets \/ LoadFails
    \/ SelectCrypto \/ SelectDual \/ SelectDefault
    \/ CryptoBackground \/ CryptoCharacter \/ CryptoBand \/ CryptoText \/ CryptoLogo
    \/ DualBackground \/ DualOverlays
    \/ DefaultBackground \/ PyramidCharacters \/ SideBySideCharacters
    \/ DefaultTitleImage \/ DefaultTextBlock \/ DefaultLogo
    \/ SavePng

Spec == Init /\ [][Next]_vars

(***************************************************************************)
(* Pyramid harness: the 3-character branch of generate_thumbnail            *)
(***************************************************************************)
InitPyramid ==
    /\ PipeIdle
    /\ ExtIdle
    /\ MoreIdle
    /\ AcIdle
    /\ FitIdle
    /\ BandIdle
    /\ TextIdle
    /\ pyr_pc = "call"
    /\ pyr_chars \in CharSizes \X CharSizes \X CharSizes
    /\ pyr_out = NoLayout

PyramidLayoutCall ==
    /\ pyr_pc = "call"
    /\ pyr_out' = PyramidLayout(pyr_chars)
    /\ pyr_pc' = "done"
    /\ UNCHANGED pyr_chars
    /\ OnlyPyramid

NextPyramid == PyramidLayoutCall

SpecPyramid == InitPyramid /\ [][NextPyramid]_vars

CoreIdle == AcIdle /\ FitIdle /\ BandIdle /\ TextIdle /\ PyrIdle /\ PipeIdle

(***************************************************************************)
(* Batch harness: the loop of cli.py lines 117-134 (generate_all.py lines   *)
(* 21-36 and app.py lines 585-633 have the same shape)                      *)
(***************************************************************************)
InitBatch ==
    /\ CoreIdle
    /\ MoreIdle
    /\ CacheIdle
    /\ LogoIdle
    /\ CfgIdle
    /\ batch_pc = "loop"
    /\ batch_caller \in BatchCallers
    /\ game_dirs \in BatchGames(batch_caller, MaxGames)
    /\ batch_i = 0
    /\ visits = [i \in DOMAIN game_dirs |-> 0]
    /\ calls = [i \in DOMAIN game_dirs |-> 0]
    /\ results = [i \in DOMAIN game_dirs |-> "pending"]
    /\ success_count = 0
    /\ reported = None
    /\ escaped = None

\* one iteration of `for game_dir in game_dirs:` with its try / except
BatchIteration ==
    /\ batch_pc = "loop"
    /\ batch_i < Len(game_dirs)
    /\ LET i   == batch_i + 1
           out == CallOutcome(batch_caller, game_dirs[i])
       IN  /\ batch_i' = i
           /\ visits' = [visits EXCEPT ![i] = @ + 1]
           /\ calls' = [calls EXCEPT ![i] = IF out = "skipped" THEN @ ELSE @ + 1]
           /\ IF out = "ok"
              THEN /\ success_count' = success_count + 1
                   /\ results' = [results EXCEPT ![i] = "ok"]
                   /\ UNCHANGED <<batch_pc, escaped>>
              ELSE /\ results' = [results EXCEPT ![i] = "failed"]
                   /\ UNCHANGED success_count
                   /\ IF out = "skipped" \/ Caught(batch_caller, out)
                      THEN UNCHANGED <<batch_pc, escaped>>
                      ELSE batch_pc' = "aborted" /\ escaped' = Some(out)
    /\ UNCHANGED <<batch_caller, game_dirs, reported>>
    /\ OnlyBatch

\* the list is exhausted: the summary after the loop
BatchReport ==
    /\ batch_pc = "loop"
    /\ batch_i = Len(game_dirs)
    /\ reported' = Some(<<success_count, Len(game_dirs)>>)
    /\ batch_pc' = "done"
    /\ UNCHANGED <<batch_caller, game_dirs, batch_i, visits, calls, results,
                   success_count, escaped>>
    /\ OnlyBatch

NextBatch == BatchIteration \/ BatchReport

SpecBatch == InitBatch /\ [][NextBatch]_vars

(***************************************************************************)
(* Cache harness, one caller: any sequence of get and set calls on an       *)
(* LRUCache(max_size), each call in one piece                               *)
(***************************************************************************)
InitCache ==
    /\ CoreIdle
    /\ MoreIdle
    /\ BatchIdle
    /\ LogoIdle
    /\ CfgIdle
    /\ ThreadsIdle
    /\ CallerIdle
    /\ cache_pc = "calls"
    /\ cache = << >>
    /\ max_size \in 1..MaxCacheSize

\* the keys a call dropped from the cache
Gone(before, after) == KeysOf(before) \ KeysOf(after)

\* the record of recency: the key moves to the newest end, dropped keys leave
Touch(order, key, gone) ==
    SelectSeq(Append(SelectSeq(order, LAMBDA k : k # key), key), LAMBDA k : k \notin gone)

GetCall ==
    /\ cache_pc = "calls"
    /\ \E call \in CacheOps :
          /\ call.op = "get"
          /\ LET out  == LRUCache_get(cache, call.key)
                 gone == Gone(cache, out.cache)
             IN  /\ cache' = out.cache
                 /\ cache_ret' = out.ret
                 /\ cache_op' = call
                 /\ cache_gone' = gone
                 /\ recent' = IF last_set[call.key] # None
                              THEN Touch(recent, call.key, gone)
                              ELSE SelectSeq(recent, LAMBDA k : k \notin gone)
                 /\ last_set' = [k \in CacheKeys |->
                                    IF k \in gone THEN None ELSE last_set[k]]
    /\ UNCHANGED <<cache_pc, max_size, lock, t_pc, t_op, t_ret, spec_cache, spec_ret>>
    /\ OnlyCache

SetCall ==
    /\ cache_pc = "calls"
    /\ \E call \in CacheOps :
          /\ call.op = "set"
          /\ LET after == LRUCache_set(cache, call.key, call.value, max_size)
                 gone  == Gone(cache, after) \cup ({call.key} \ KeysOf(after))
             IN  /\ cache' = after
                 /\ cache_op' = call
                 /\ cache_gone' = gone
                 /\ recent' = Touch(recent, call.key, gone)
                 /\ last_set' = [k \in CacheKeys |->
                                    IF k \in gone THEN None
                                    ELSE IF k = call.key THEN Some(call.value)
                                    ELSE last_set[k]]
    /\ UNCHANGED <<cache_pc, max_size, cache_ret, lock, t_pc, t_op, t_ret, spec_cache,
                   spec_ret>>
    /\ OnlyCache

NextCache == GetCall \/ SetCall

SpecCache == InitCache /\ [][NextCache]_vars

(***************************************************************************)
(* Cache harness, request threads: each thread makes get and set calls on   *)
(* the shared cache, one statement of the method body per step              *)
(***************************************************************************)
InitThreads ==
    /\ CoreIdle
    /\ MoreIdle
    /\ BatchIdle
    /\ LogoIdle
    /\ CfgIdle
    /\ CallerIdle
    /\ cache_pc = "threads"
    /\ cache = << >>
    /\ max_size \in ThreadSizes
    /\ lock = 0
    /\ t_pc = [t \in Threads |-> "idle"]
    /\ t_op = [t \in Threads |-> NoOp]
    /\ t_ret = [t \in Threads |-> None]
    /\ spec_cache = << >>
    /\ spec_ret = [t \in Threads |-> None]

CallerFrame == UNCHANGED <<cache_pc, max_size, cache_op, cache_ret, cache_gone, recent,
                           last_set>>

\* a request thread calls preview_asset_cache.get(key) or .set(key, value)
ThreadCall(t) ==
    /\ cache_pc = "threads"
    /\ t_pc[t] = "idle"
    /\ \E call \in ThreadOps : t_op' = [t_op EXCEPT ![t] = call]
    /\ t_pc' = [t_pc EXCEPT ![t] = "acquire"]
    /\ UNCHANGED <<cache, lock, t_ret, spec_cache, spec_ret>>
    /\ CallerFrame /\ OnlyCache

\* with self.lock: (entered)
Acquire(t) ==
    /\ t_pc[t] = "acquire"
    /\ LockFree(lock)
    /\ lock' = t
    /\ t_pc' = [t_pc EXCEPT ![t] = "lookup"]
    /\ IF t_op[t].op = "get"
       THEN LET out == LRUCache_get(spec_cache, t_op[t].key)
            IN  /\ spec_cache' = out.cache
                /\ spec_ret' = [spec_ret EXCEPT ![t] = out.ret]
       ELSE /\ spec_cache' = LRUCache_set(spec_cache, t_op[t].key, t_op[t].value, max_size)
            /\ UNCHANGED spec_ret
    /\ UNCHANGED <<cache, t_op, t_ret>>
    /\ CallerFrame /\ OnlyCache

\* if key in self.cache: (lines 145 and 152); a get that misses returns None
Lookup(t) ==
    /\ t_pc[t] = "lookup"
    /\ IF Contains(cache, t_op[t].key)
       THEN t_pc' = [t_pc EXCEPT ![t] = "move"] /\ UNCHANGED t_ret
       ELSE IF t_op[t].op = "get"
       THEN t_pc' = [t_pc EXCEPT ![t] = "release"] /\ t_ret' = [t_ret EXCEPT ![t] = None]
       ELSE t_pc' = [t_pc EXCEPT ![t] = "assign"] /\ UNCHANGED t_ret
    /\ UNCHANGED <<cache, lock, t_op, spec_cache, spec_ret>>
    /\ CallerFrame /\ OnlyCache

\* self.cache.move_to_end(key) (lines 146 and 153)
MoveToEnd(t) ==
    /\ t_pc[t] = "move"
    /\ cache' = move_to_end(cache, t_op[t].key)
    /\ t_pc' = [t_pc EXCEPT ![t] = IF t_op[t].op = "get" THEN "read" ELSE "assign"]
    /\ UNCHANGED <<lock, t_op, t_ret, spec_cache, spec_ret>>
    /\ CallerFrame /\ OnlyCache

\* return self.cache[key] (line 147)
ReadValue(t) ==
    /\ t_pc[t] = "read"
    /\ t_ret' = [t_ret EXCEPT ![t] = IF Contains(cache, t_op[t].key)
                                     THEN Some(getitem(cache, t_op[t].key)) ELSE None]
    /\ t_pc' = [t_pc EXCEPT ![t] = "release"]
    /\ UNCHANGED <<cache, lock, t_op, spec_cache, spec_ret>>
    /\ CallerFrame /\ OnlyCache

\* self.cache[key] = value (line 154)
Assign(t) ==
    /\ t_pc[t] = "assign"
    /\ cache' = setitem(cache, t_op[t].key, t_op[t].value)
    /\ t_pc' = [t_pc EXCEPT ![t] = "size"]
    /\ UNCHANGED <<lock, t_op, t_ret, spec_cache, spec_ret>>
    /\ CallerFrame /\ OnlyCache

\* if len(self.cache) > self.max_size: (line 155)
CheckSize(t) ==
    /\ t_pc[t] = "size"
    /\ t_pc' = [t_pc EXCEPT ![t] = IF Len(cache) > max_size THEN "evict" ELSE "release"]
    /\ UNCHANGED <<cache, lock, t_op, t_ret, spec_cache, spec_ret>>
    /\ CallerFrame /\ OnlyCache

\* self.cache.popitem(last=False) (line 156)
Evict(t) ==
    /\ t_pc[t] = "evict"
    /\ cache' = IF cache = << >> THEN cache ELSE popitem(cache)
    /\ t_pc' = [t_pc EXCEPT ![t] = "release"]
    /\ UNCHANGED <<lock, t_op, t_ret, spec_cache, spec_ret>>
    /\ CallerFrame /\ OnlyCache

\* the with block is left: the lock is released and the call returns
Release(t) ==
    /\ t_pc[t] = "release"
    /\ lock' = 0
    /\ t_pc' = [t_pc EXCEPT ![t] = "idle"]
    /\ t_op' = [t_op EXCEPT ![t] = NoOp]
    /\ UNCHANGED <<cache, t_ret, spec_cache, spec_ret>>
    /\ CallerFrame /\ OnlyCache

NextThreads ==
    \E t \in Threads :
        \/ ThreadCall(t) \/ Acquire(t) \/ Lookup(t) \/ MoveToEnd(t) \/ ReadValue(t)
        \/ Assign(t) \/ CheckSize(t) \/ Evict(t) \/ Release(t)

SpecThreads == InitThreads /\ [][NextThreads]_vars

(***************************************************************************)
(* Logo harness: thumbgen/provider_logo.py render_provider_logo             *)
(***************************************************************************)
InitLogo ==
    /\ CoreIdle
    /\ MoreIdle
    /\ BatchIdle
    /\ CacheIdle
    /\ CfgIdle
    /\ logo_pc = "call"
    /\ logo_img \in LogoDims \X LogoDims
    /\ logo_cfg \in LogoConfigs
    /\ logo_out = NoLogoOut

RenderProviderLogoCall ==
    /\ logo_pc = "call"
    /\ logo_out' = place_provider_logo(logo_img, logo_cfg)
    /\ logo_pc' = "done"
    /\ UNCHANGED <<logo_img, logo_cfg>>
    /\ OnlyLogo

NextLogo == RenderProviderLogoCall

SpecLogo == InitLogo /\ [][NextLogo]_vars

(***************************************************************************)
(* Claims about the provider logo                                          *)
(***************************************************************************)
LogoMaxW == IntMulRatio(CANVAS_W, logo_cfg.max_width_ratio, 100)
LogoMaxH == IntMulRatio(CANVAS_H, logo_cfg.max_height_ratio, 100)

\* the logo's width is what limits the scale s = min(max_w / w, max_h / h)
WidthLimited == LogoMaxW * logo_img[2] <= LogoMaxH * logo_img[1]

\* side * s in exact arithmetic, rounded down
ExactScaled(side) ==
    IF WidthLimited THEN (side * LogoMaxW) \div logo_img[1]
    ELSE (side * LogoMaxH) \div logo_img[2]

\* a scaled side is int(side * s): the exact product rounded down, or one
\* less where the float product falls just short of a whole number
ScaledBy(side, scaled) == scaled \in {ExactScaled(side) - 1, ExactScaled(side)}

CornerLogoScaled ==
    /\ logo_pc = "done"
    /\ logo_out.size # <<0, 0>>
    /\ logo_cfg.position \in {"top_left", "top_right", "bottom_left", "bottom_right"}

\* C28: for each of the four corners, every margin >= 0, every ratio in
\* (0, 1] and every logo size, the destination render_provider_logo hands to
\* the in-place composite has x >= 0 and y >= 0, so placing the logo does
\* not fail.
C28_LogoDestinationNonNegative ==
    CornerLogoScaled =>
        /\ logo_out.pos[1] >= 0
        /\ logo_out.pos[2] >= 0
        /\ logo_out.error = None

(***************************************************************************)
(* Config harness: thumbgen/config.py load_config                           *)
(***************************************************************************)
InitConfig ==
    /\ CoreIdle
    /\ MoreIdle
    /\ BatchIdle
    /\ CacheIdle
    /\ LogoIdle
    /\ cfg_pc = "call"
    /\ cfg_path \in ConfigPaths
    /\ cfg_file \in ConfigFiles
    /\ cfg_raw \in ConfigRaws
    /\ cfg_out = NoConfig

LoadConfigCall ==
    /\ cfg_pc = "call"
    /\ cfg_out' = load_config(cfg_path, cfg_file, cfg_raw)
    /\ cfg_pc' = "done"
    /\ UNCHANGED <<cfg_path, cfg_file, cfg_raw>>
    /\ OnlyConfig

NextConfig == LoadConfigCall

SpecConfig == InitConfig /\ [][NextConfig]_vars

(***************************************************************************)
(* Claims about the configuration                                          *)
(***************************************************************************)
\* the name of the folder that holds config.json
ConfigFolder == IF Len(cfg_path) >= 2 THEN cfg_path[Len(cfg_path) - 1] ELSE ""

\* C19: a load_config that returns sets output_filename to
\* '<name of the folder containing config.json>.png' when the config file has
\* no output_filename, and to the configured value otherwise.
C19_DefaultOutputFilename ==
    (cfg_pc = "done" /\ cfg_out.error = None) =>
        /\ cfg_raw.output_filename = None =>
              cfg_out.output_filename = ConfigFolder \o ".png"
        /\ cfg_raw.output_filename # None =>
              cfg_out.output_filename = cfg_raw.output_filename[1]

\* C19 witness: games/cleomeowtra/config.json without output_filename loaded
\* as cleomeowtra.png.
C19_Witness ==
    /\ cfg_pc = "done"
    /\ cfg_path = <<"games", "cleomeowtra", "config.json">>
    /\ cfg_raw.output_filename = None
    /\ cfg_out.error = None
    /\ cfg_out.output_filename = "cleomeowtra.png"

(***************************************************************************)
(* Character row harness: render_characters of character.py on 1 or 2      *)
(* characters                                                              *)
(***************************************************************************)
CharRatios == {30, 72, 100}
CharRows   == {<<a>> : a \in CharSizes} \cup {<<a, b>> : a \in CharSizes, b \in CharSizes}

InitChars ==
    /\ chars_pc = "call"
    /\ chars_in \in CharRows
    /\ chars_ratio \in CharRatios
    /\ chars_out = NoRow
    /\ CoreIdle
    /\ ExtIdle
    /\ ElemsIdle
    /\ InvertIdle
    /\ PreviewIdle
    /\ DualIdle

\* pipeline.py line 143: render_characters(assets.characters, cfg.character_height_ratio);
\* character.py line 63: target_size = int(CANVAS_H * height_ratio)
RenderCharactersCall ==
    /\ chars_pc = "call"
    /\ chars_pc' = "done"
    /\ chars_out' = render_characters(chars_in, IntMulRatio(CANVAS_H, chars_ratio, 100))
    /\ UNCHANGED <<chars_in, chars_ratio>>
    /\ OnlyChars

NextChars == RenderCharactersCall

SpecChars == InitChars /\ [][NextChars]_vars

(***************************************************************************)
(* Claims about the character row                                          *)
(***************************************************************************)
RowReturned == chars_pc = "done" /\ ~chars_out.raised

\* the sizes of the first resize: the longer side becomes int(H * height_ratio)
InitialSizes ==
    [i \in DOMAIN chars_in |->
        LET t == IntMulRatio(CANVAS_H, chars_ratio, 100)
            d == Max(chars_in[i][1], chars_in[i][2])
        IN  <<IntMulRatio(chars_in[i][1], t, d), IntMulRatio(chars_in[i][2], t, d)>>]

InitialSpacing == IntMulRatio(CANVAS_W, 5, 100)

InitialTotal == SumWidths(InitialSizes) + InitialSpacing * (Len(chars_in) - 1)

RowLimit == IntMulRatio(CANVAS_W, 90, 100)

GroupWidth == SumWidths(chars_out.sizes) + chars_out.spacing * (Len(chars_in) - 1)

InitDual ==
    /\ dual_pc = "tight"
    /\ dual_content \in DualContents \X DualContents
    /\ \E b \in DualBorders : dual_border = <<b, <<b[3], b[4], b[1], b[2]>>>>
    /\ dual_chars = <<BlankImage, BlankImage>>
    /\ dual_out = NoDualOut
    /\ dual_first = NoDualOut
    /\ CoreIdle
    /\ ExtIdle
    /\ ElemsIdle
    /\ InvertIdle
    /\ PreviewIdle
    /\ CharsIdle

\* render_dual_card(background, char1, char2, title_image), its characters
RenderDual(chars, next) ==
    /\ dual_pc' = next
    /\ dual_chars' = chars
    /\ dual_out' = dual_characters(chars[1], chars[2])
    /\ dual_first' = IF dual_pc = "tight" THEN dual_out' ELSE dual_first
    /\ UNCHANGED <<dual_content, dual_border>>
    /\ OnlyDual

RenderDualTight ==
    /\ dual_pc = "tight"
    /\ RenderDual(dual_content, "framed")

RenderDualFramed ==
    /\ dual_pc = "framed"
    /\ RenderDual(<<Framed(dual_content[1], dual_border[1]),
                    Framed(dual_content[2], dual_border[2])>>, "done")

NextDual == RenderDualTight \/ RenderDualFramed

SpecDual == InitDual /\ [][NextDual]_vars

(***************************************************************************)
(* Claims about the dual card characters                                   *)
(***************************************************************************)
\* what is visible of an image: its non-transparent pixels relative to their
\* bounding box
Visible(img) ==
    LET xs == {q[1] : q \in img.alpha}
        ys == {q[2] : q \in img.alpha}
    IN  {<<q[1] - SetMin(xs), q[2] - SetMin(ys)>> : q \in img.alpha}

\* a and b show the same content and differ at most by transparent borders
SameContent(a, b) == a.alpha # {} /\ b.alpha # {} /\ Visible(a) = Visible(b)

BothRendered == dual_pc = "done"

\* C22: render_dual_card places a character by its non-transparent content
\* only: the same content inside a different fully transparent border gets
\* the same resized size (height int(0.52 * H)), the same horizontal centre
\* (int(0.30 * W) left, int(0.70 * W) right) and the same top y = int(0.15 * H).
C22_DualPlacementByContent ==
    BothRendered =>
        /\ SameContent(dual_content[1], dual_chars[1]) =>
              /\ dual_out.left = dual_first.left
              /\ dual_out.left.size[2] = IntMulRatio(CANVAS_H, 52, 100)
              /\ dual_out.left.pos[1] + (dual_out.left.size[1] \div 2)
                    = IntMulRatio(CANVAS_W, 30, 100)
              /\ dual_out.left.pos[2] = IntMulRatio(CANVAS_H, 15, 100)
        /\ SameContent(dual_content[2], dual_chars[2]) =>
              /\ dual_out.right = dual_first.right
              /\ dual_out.right.size[2] = IntMulRatio(CANVAS_H, 52, 100)
              /\ dual_out.right.pos[1] + (dual_out.right.size[1] \div 2)
                    = IntMulRatio(CANVAS_W, 70, 100)
              /\ dual_out.right.pos[2] = IntMulRatio(CANVAS_H, 15, 100)

\* a 3x2 and a 2x3 character, each rendered again inside a wider frame
C22_Witness ==
    /\ BothRendered
    /\ dual_content = <<Filled(3, 2), Filled(2, 3)>>
    /\ dual_chars[1].width = 5 /\ dual_chars[1].height = 4
    /\ SameContent(dual_content[1], dual_chars[1])
    /\ SameContent(dual_content[2], dual_chars[2])
    /\ dual_out.left.size = <<459, 306>>
    /\ ~dual_out.left.raised

(***************************************************************************)
(* Claims about the final positioning of title and provider                *)
(***************************************************************************)
Positioned == text_pc = "done"

\* C23: with a provider line (text_offset = 0), the final positions keep the
\* minimum gap: title top y + title block height + int(0.04 * H) is at most
\* the provider top y.
C23_MinGapKept ==
    (Positioned /\ HasProvider) =>
        text_y[1] + actual_title_h(title_meas.h, text_image, text_canvas) + Area.min_gap
            <= text_y[2][1]

Drawn == text_pc = "done"

\* where render_crypto_card would put a text title of height h above the
\* same provider line
TextTitleY(h) == FinalPositioning(Area, h, HasProvider, prov_meas.h)[1]

\* C24: next to the same provider line, a title image is drawn at the top y
\* a text title of the image's scaled height would be drawn at.
C24_TitleImageLaidOutAsText ==
    (Drawn /\ text_image # None) =>
        text_drawn.title_pos[2] = TextTitleY(text_drawn.title_size[2])

\* the y the title is drawn at when text_offset is 0
TitleYWithoutOffset ==
    IF text_image # None
    THEN place_title_image(text_image, IF HasProvider THEN prov_meas.h ELSE 0).pos[2]
    ELSE text_y[1]

\* C29: a non-zero text_offset moves the drawn title and the drawn provider
\* line by the same int(text_offset * canvas height) pixels.
C29_OffsetMovesTitleAndProvider ==
    (Drawn /\ text_offset # 0) =>
        /\ text_drawn.title_pos[2]
              = TitleYWithoutOffset + OffsetPixels(text_offset, text_canvas[2])
        /\ HasProvider =>
              text_drawn.prov_y
                  = Some(text_y[2][1] + OffsetPixels(text_offset, text_canvas[2]))

(***************************************************************************)
(* Preview harness: a sequence of requests to /api/preview-live             *)
(***************************************************************************)
InitPreview ==
    /\ pv_pc = "serving"
    /\ pv_disk \in [logo : BOOLEAN, title : BOOLEAN]
    /\ pv_cache = << >>
    /\ pv_req = NoRequest
    /\ pv_resp = NoResponse
    /\ pv_n = 0
    /\ CoreIdle
    /\ ExtIdle
    /\ ElemsIdle
    /\ InvertIdle
    /\ CharsIdle
    /\ DualIdle

\* app.py lines 447-553
PreviewLiveCall ==
    /\ pv_pc = "serving"
    /\ pv_n < MaxRequests
    /\ \E req \in PreviewRequests :
          LET out == preview_live(pv_cache, req, pv_disk)
          IN  /\ pv_req' = req
              /\ pv_cache' = out.cache
              /\ pv_resp' = out.resp
    /\ pv_n' = pv_n + 1
    /\ UNCHANGED <<pv_pc, pv_disk>>
    /\ OnlyPreview

NextPreview == PreviewLiveCall

SpecPreview == InitPreview /\ [][NextPreview]_vars

(***************************************************************************)
(* Claims about the live preview                                           *)
(***************************************************************************)
\* the last request was for an existing game, without custom asset selections
PlainPreviewServed ==
    /\ pv_n > 0
    /\ pv_req.game_path \in PreviewGames
    /\ ~pv_req.custom

\* C26: in any sequence of preview requests, a request for a game without
\* custom asset selections is rendered with the assets load_assets returns
\* for that request's own provider_mode and title_mode, be they freshly
\* loaded or taken from the cache.
C26_PreviewUsesOwnAssets ==
    PlainPreviewServed =>
        pv_resp.assets = Some(load_assets(pv_disk, PreviewConfig(pv_req)))

(***************************************************************************)
(* Inversion harness: provider_logo.py _invert_if_needed on a logo's pixels *)
(***************************************************************************)
InitInvert ==
    /\ inv_pc = "call"
    /\ \E n \in 1..MaxLogoPixels : inv_logo \in LogoPixelRows(n)
    /\ inv_flag \in BOOLEAN
    /\ inv_out = << >>
    /\ CoreIdle
    /\ ExtIdle
    /\ ElemsIdle
    /\ CharsIdle
    /\ DualIdle
    /\ PreviewIdle

\* provider_logo.py line 137
InvertIfNeededCall ==
    /\ inv_pc = "call"
    /\ inv_pc' = "done"
    /\ inv_out' = invert_if_needed(inv_logo, inv_flag)
    /\ UNCHANGED <<inv_logo, inv_flag>>
    /\ OnlyInvert

NextInvert == InvertIfNeededCall

SpecInvert == InitInvert /\ [][NextInvert]_vars

(***************************************************************************)
(* Claims about the logo inversion                                         *)
(***************************************************************************)
\* C27: _invert_if_needed changes colour channels only: every pixel of its
\* result has the alpha of the same pixel of the input logo, whether or not
\* inversion is requested.
C27_InversionKeepsAlpha ==
    inv_pc = "done" =>
        /\ DOMAIN inv_out = DOMAIN inv_logo
        /\ \A i \in DOMAIN inv_logo : inv_out[i][4] = inv_logo[i][4]

(***************************************************************************)
(* Image element harness: the title image and the provider logo of          *)
(* render_crypto_card on a canvas of the requested size                    *)
(***************************************************************************)
InitElems ==
    /\ el_pc = "call"
    /\ el_canvas \in ElemCanvases
    /\ el_title \in ElemTitles
    /\ el_logo \in ElemLogos
    /\ el_prov_h \in ElemProvHs
    /\ el_out = NoElements
    /\ CoreIdle
    /\ ExtIdle
    /\ CharsIdle
    /\ DualIdle
    /\ PreviewIdle
    /\ InvertIdle

\* crypto_card.py lines 378-413
DrawImageElements ==
    /\ el_pc = "call"
    /\ el_pc' = "done"
    /\ el_out' = card_image_elements(el_canvas, el_title, el_logo, el_prov_h)
    /\ UNCHANGED <<el_canvas, el_title, el_logo, el_prov_h>>
    /\ OnlyElems

NextElems == DrawImageElements

SpecElems == InitElems /\ [][NextElems]_vars

(***************************************************************************)
(* Claims about a canvas of requested dimensions                           *)
(***************************************************************************)
\* render_crypto_card was asked for a canvas that is not 440x590
OtherCanvasDrawn == el_pc = "done" /\ el_canvas # <<CANVAS_W, CANVAS_H>>

\* C30: on a canvas of requested dimensions other than 440x590 the title
\* image and the provider logo are sized and positioned relative to those
\* dimensions: the title image fits 0.92 x width by 0.27 x height, is centred
\* horizontally and lies in the text area (0.68 to 0.95 of the height); the
\* bottom_right logo fits 0.25 x width by 0.12 x height and sits `margin`
\* pixels from the canvas's right and bottom edges.
C30_ElementsFollowRequestedCanvas ==
    OtherCanvasDrawn =>
        LET cw == el_canvas[1]
            ch == el_canvas[2]
            t  == el_out.title
            l  == el_out.logo
        IN  /\ t.size = FitInside(el_title, IntMulRatio(cw, 92, 100), IntMulRatio(ch, 27, 100))
            /\ t.pos[1] = (cw - t.size[1]) \div 2
            /\ t.pos[2] >= IntMulRatio(ch, 68, 100)
            /\ t.pos[2] + t.size[2] <= IntMulRatio(ch, 95, 100)
            /\ l.size = FitInside(el_logo, IntMulRatio(cw, 25, 100), IntMulRatio(ch, 12, 100))
            /\ cw - (l.pos[1] + l.size[1]) = CryptoLogoConfig.margin
            /\ ch - (l.pos[2] + l.size[2]) = CryptoLogoConfig.margin

(***************************************************************************)
(* Claims about the preview asset cache                                    *)
(***************************************************************************)
\* the call made by a step would take the cache past its capacity
WouldExceed(call) ==
    call.op = "set" /\ last_set[call.key] = None /\ Len(recent) = max_size

\* C15: after any sequence of get and set calls the cache holds at most
\* max_size entries, one per key, in order of their last set or found get; a
\* set that would exceed the capacity drops exactly the entry whose last set
\* or found get is the oldest and no other call drops anything; a get of a
\* key that was set and not dropped since returns the value last set for it.
C15_LRUCacheBounded ==
    /\ [](/\ Len(cache) <= max_size
          /\ Cardinality(KeysOf(cache)) = Len(cache)
          /\ [i \in DOMAIN cache |-> cache[i][1]] = recent
          /\ \A i \in DOMAIN cache : last_set[cache[i][1]] = Some(cache[i][2])
          /\ (cache_op.op = "get" /\ last_set[cache_op.key] # None)
                => cache_ret = last_set[cache_op.key])
    /\ [][LET call == cache_op'
          IN  /\ cache_gone' = Gone(cache, cache')
              /\ IF WouldExceed(call)
                 THEN cache_gone' = {Head(recent)} /\ Contains(cache', call.key)
                 ELSE cache_gone' = {}]_vars

\* C15 witness: a cache of capacity 2 held keys 2 and 1, key 1 being the more
\* recently used; set(3, "b") dropped key 2 and nothing else.
C15_Witness ==
    /\ cache_pc = "calls"
    /\ max_size = 2
    /\ cache_op = [op |-> "set", key |-> 3, value |-> "b"]
    /\ cache_gone = {2}
    /\ cache = <<<<1, "a">>, <<3, "b">>>>

\* thread t is inside the with block of its call
InCall(t) == t_pc[t] \in {"lookup", "move", "read", "assign", "size", "evict", "release"}

\* C16: for any interleaving of get and set calls of concurrent request
\* threads, the body of each call runs as one critical section under the
\* cache lock: a thread inside a call holds the lock (so no two are inside
\* together), the cache changes only in steps of the lock holder, and
\* whenever the lock is free the cache is exactly what the calls made so far
\* give when each runs in one piece, within its capacity and in recency
\* order; each get returns what it returns when run in one piece.  Inside a
\* set, between the insert and the eviction, the lock holder alone sees
\* max_size + 1 entries.
C16_CacheCallsSerialized ==
    /\ [](\A t \in Threads : InCall(t) => lock = t)
    /\ [](Len(cache) <= max_size + 1)
    /\ [](lock = 0 => /\ cache = spec_cache
                      /\ Len(cache) <= max_size
                      /\ Cardinality(KeysOf(cache)) = Len(cache))
    /\ [](\A t \in Threads : t_pc[t] \in {"idle", "acquire"} => t_ret[t] = spec_ret[t])
    /\ [][cache' # cache =>
            /\ lock # 0 /\ lock' = lock
            /\ \A u \in Threads \ {lock} : t_pc'[u] = t_pc[u]]_vars

\* C16 witness: thread 1 is about to evict from a cache that holds
\* max_size + 1 entries while thread 2, which has called set, waits for the
\* lock.
C16_Witness ==
    /\ cache_pc = "threads"
    /\ t_pc[1] = "evict" /\ lock = 1
    /\ Len(cache) = max_size + 1
    /\ t_pc[2] = "acquire" /\ t_op[2].op = "set"

(***************************************************************************)
(* Claims about the batch callers                                          *)
(***************************************************************************)
\* the games whose render did not fail
Succeeded == {i \in DOMAIN game_dirs : results[i] = "ok"}

\* C13: in a batch run every failure of one game's render is caught and the
\* loop goes on without retrying: no exception leaves the loop, no game is
\* visited or rendered twice, and when the run reports, every game was visited
\* exactly once (rendered exactly once unless generate_bulk found no folder
\* for it) and the reported success count is the number of games whose
\* render did not fail.
C13_BatchSkipsAndContinues ==
    /\ batch_pc # "aborted" /\ escaped = None
    /\ \A i \in DOMAIN game_dirs :
          /\ visits[i] <= 1 /\ calls[i] <= visits[i]
          /\ visits[i] = 1 <=> results[i] # "pending"
    /\ success_count = Cardinality(Succeeded)
    /\ batch_pc = "done" =>
          /\ \A i \in DOMAIN game_dirs :
                /\ visits[i] = 1
                /\ calls[i] = IF game_dirs[i] = "not_found" THEN 0 ELSE 1
          /\ reported = Some(<<Cardinality(Succeeded), Len(game_dirs)>>)
          /\ batch_caller # "web_bulk" =>
                Succeeded = {i \in DOMAIN game_dirs : game_dirs[i] = "ok"}

\* C13 witness: the CLI loop met a game whose render raised a plain exception
\* first, went on to a game that rendered, and reported 1 of 2.
C13_Witness ==
    /\ batch_pc = "done"
    /\ batch_caller = "cli"
    /\ game_dirs = <<"ValueError", "ok">>
    /\ reported = Some(<<1, 2>>)

(***************************************************************************)
(* Claims about the pipeline                                               *)
(***************************************************************************)
\* the canvas size the caller configured: the arguments of render_crypto_card
\* when given, the module constants otherwise
ConfiguredSize ==
    <<IF canvas_arg[1] = None THEN CANVAS_W ELSE canvas_arg[1][1],
      IF canvas_arg[2] = None THEN CANVAS_H ELSE canvas_arg[2][1]>>

\* C2: in every layout branch and for every configured canvas size, the canvas
\* has exactly the configured size after each stage (background, characters,
\* band, title, provider logo) and when it is returned or saved.
C2_CanvasSizeKept ==
    /\ canvas # None => canvas = ConfiguredSize
    /\ stages # << >> => canvas = ConfiguredSize
    /\ pc \in {"save", "done", "returned"} => canvas = ConfiguredSize
    /\ saved_size # None => saved_size = ConfiguredSize

\* C2 witness: a card configured as 720x720 went through all five stages on a
\* 700x700 background and was returned as 720x720.
C2_Witness ==
    /\ pc = "returned"
    /\ canvas_arg = <<Some(720), Some(720)>>
    /\ background = <<700, 700>>
    /\ card_blur /\ title_image # None /\ provider_logo # None
    /\ stages = <<"background", "character", "band", "title", "provider_logo">>
    /\ canvas = <<720, 720>>

\* the branch the claim assigns to a layout and character count
ClaimedBranch ==
    CASE layout = "crypto" -> {"crypto"}
      [] layout = "dual"   -> {"dual"}
      [] layout = "default" /\ Len(characters) = 3 -> {"pyramid"}
      [] layout = "default" /\ Len(characters) \in {1, 2} -> {"side_by_side"}
      [] OTHER -> {"crypto", "dual", "pyramid", "side_by_side"}

\* C10: a render enters at most one composition branch, the one its layout
\* and character count select (crypto -> crypto card, dual -> dual card,
\* default with 3 characters -> pyramid, default with 1-2 -> side-by-side),
\* and a successful render has entered exactly one branch and saved once.
C10_OneBranchPerRender ==
    entry = "generate_thumbnail" =>
        /\ Len(branches) <= 1
        /\ \A i \in DOMAIN branches : branches[i] \in ClaimedBranch
        /\ saves <= 1
        /\ pc = "done" => (Len(branches) = 1 /\ saves = 1)

\* a dual render that lacks its second character or its title image
DualUnderSupplied ==
    /\ entry = "generate_thumbnail"
    /\ layout = "dual"
    /\ Len(characters) < 2 \/ title_image = None

\* C11: a render requested in dual layout with fewer than two characters, or
\* with no title image, never reaches the save, writes no image and enters no
\* composition branch other than the dual card.
C11_DualRequiresAssets ==
    DualUnderSupplied =>
        /\ pc \notin {"save", "done"}
        /\ saves = 0 /\ saved_size = None
        /\ \A i \in DOMAIN branches : branches[i] = "dual"

\* the stages a finished canvas went through, by branch
FullyComposed ==
    /\ Len(branches) = 1
    /\ stages = CASE branches[1] = "crypto" ->
                        <<"background", "character", "band", "title", "provider_logo">>
                   [] branches[1] = "dual" -> <<"background", "character">>
                   [] OTHER -> <<"background", "character", "title", "provider_logo">>

\* C12: when generate_thumbnail fails at any stage it propagates exactly one
\* error (one ProcessingError, set once and never replaced), nothing was saved
\* and nothing is saved afterwards; the output file is written only by the
\* last step, once, from a canvas that went through every stage of its branch.
C12_FailureWritesNothing ==
    /\ [](entry = "generate_thumbnail" =>
            /\ (error # None) = (pc = "failed")
            /\ error # None => /\ error[1].raised = "ProcessingError"
                               /\ saves = 0 /\ saved_size = None
            /\ saves > 0 => /\ pc = "done" /\ saves = 1
                            /\ FullyComposed
                            /\ saved_size = canvas)
    /\ [][error # None => (error' = error /\ saves' = saves)]_vars
    /\ [][saves' # saves => (pc = "save" /\ pc' = "done" /\ FullyComposed)]_vars

\* C12 witness: a default render failed at the title stage, after background
\* and characters were composed, and left one error and no file.
C12_Witness ==
    /\ entry = "generate_thumbnail"
    /\ pc = "failed"
    /\ stages = <<"background", "character">>
    /\ error = Raise("TypeError")
    /\ saves = 0

\* the provider logo is enabled but no image can be loaded from it, and
\* nothing else is wrong with the game folder
LogoUnloadable ==
    /\ entry = "generate_thumbnail"
    /\ load_fault = "none"
    /\ logo_file \in {"missing", "corrupt"}

\* C14: when the provider logo is enabled but cannot be loaded (missing, or
\* not decodable), loading raises no error for it: the render gets past the
\* loader with no logo, fails nowhere because of the logo, and keeps the
\* provider text for the text block.
C14_LogoFailureNotFatal ==
    LogoUnloadable =>
        /\ error = None \/ error[1].cause # "ProviderLogoError"
        /\ pc = "failed" => stages # << >> \/ branches # << >>

\* a default-layout render whose title image is enabled and was loaded
DefaultWithTitleImage ==
    /\ entry = "generate_thumbnail"
    /\ layout = "default"
    /\ title_image # None

\* C18: in the default layout with the title image enabled and loaded, the
\* title stage raises nothing, and a render that completes has drawn the
\* title after the characters and saved the output file once.
C18_DefaultTitleImageRenders ==
    DefaultWithTitleImage =>
        /\ error = None \/ error[1].cause # "TypeError"
        /\ pc = "done" => /\ stages = <<"background", "character", "title", "provider_logo">>
                          /\ saves = 1

\* generate_thumbnail has drawn the band of the crypto layout
CryptoBandDrawn ==
    /\ entry = "generate_thumbnail"
    /\ layout = "crypto"
    /\ pc \in {"crypto_text", "crypto_logo", "save", "done"}

\* C25: in crypto layout generate_thumbnail draws the band with the band_color
\* of the configuration when it is set (a list of three in config.json) and
\* detects the colour only when it is absent.
C25_ConfiguredBandColorUsed ==
    CryptoBandDrawn =>
        band_rgb = IF parse_band_color(band_color_raw) # None
                   THEN parse_band_color(band_color_raw)
                   ELSE DetectBandColor(PipePalette)

(***************************************************************************)
(* Claims about the pyramid layout                                         *)
(***************************************************************************)
\* height, centre and horizontal placement the claim gives one asset
PlacedAsClaimed(part, target_h, center_y) ==
    /\ part.size[2] = target_h
    /\ part.pos[2] + (part.size[2] \div 2) = center_y

PyramidPlaced ==
    /\ PlacedAsClaimed(pyr_out.pyramid, (95 * CANVAS_H) \div 100, (38 * CANVAS_H) \div 100)
    /\ (CANVAS_W - pyr_out.pyramid.size[1]) - 2 * pyr_out.pyramid.pos[1] \in {0, 1}

CatsPlaced ==
    /\ PlacedAsClaimed(pyr_out.left, (42 * CANVAS_H) \div 100, (58 * CANVAS_H) \div 100)
    /\ PlacedAsClaimed(pyr_out.right, (42 * CANVAS_H) \div 100, (58 * CANVAS_H) \div 100)
    /\ pyr_out.left.pos[1] + (pyr_out.left.size[1] \div 2) = (30 * CANVAS_W) \div 100
    /\ pyr_out.right.pos[1] + (pyr_out.right.size[1] \div 2) = (70 * CANVAS_W) \div 100

\* the width of the source scaled by new_h / h, rounded down
FlooredWidth(src, new_h) == (src[1] * new_h) \div src[2]

WidthIsFloor(part, src) == part.size[1] = FlooredWidth(src, part.size[2])

\* the floored width, or one less when the exact scaled width is a whole number
WidthNearFloor(part, src) ==
    /\ part.size[1] \in {FlooredWidth(src, part.size[2]) - 1, FlooredWidth(src, part.size[2])}
    /\ (src[1] * part.size[2]) % src[2] # 0 => WidthIsFloor(part, src)

PyramidLaidOut == pyr_pc = "done" /\ ~pyr_out.raised

\* C9 (as claimed): with three characters the middle one is resized to height
\* int(0.95 H), centred horizontally, vertical centre int(0.38 H); the first
\* and third to height int(0.42 H), horizontal centres int(0.30 W) and
\* int(0.70 W), vertical centre int(0.58 H); every width is the source width
\* scaled by the same factor as the height, rounded down.
C9_Original ==
    pyr_pc = "done" =>
        /\ ~pyr_out.raised
        /\ PyramidPlaced /\ CatsPlaced
        /\ WidthIsFloor(pyr_out.pyramid, pyr_chars[2])
        /\ WidthIsFloor(pyr_out.left, pyr_chars[1])
        /\ WidthIsFloor(pyr_out.right, pyr_chars[3])

\* C9 (amended): when every scaled width is at least one pixel, heights and
\* centres are as claimed, the cats are composited after the pyramid, and each
\* width is the floored scaled width, or one pixel less in some cases where
\* the exact scaled width is a whole number.
C9_PyramidLayout ==
    PyramidLaidOut =>
        /\ PyramidPlaced /\ CatsPlaced
        /\ pyr_out.order = <<"pyramid", "glow", "left", "right">>
        /\ WidthNearFloor(pyr_out.pyramid, pyr_chars[2])
        /\ WidthNearFloor(pyr_out.left, pyr_chars[1])
        /\ WidthNearFloor(pyr_out.right, pyr_chars[3])

\* C9 witness: three characters of different sizes were laid out, the left
\* one a 49x49 square that came out 246 wide and 247 high.
C9_Witness ==
    /\ PyramidLaidOut
    /\ pyr_chars[1] = <<49, 49>>
    /\ pyr_chars[2] = <<512, 512>>
    /\ pyr_chars[3] = <<2, 1>>
    /\ pyr_out.left.size = <<246, 247>>
    /\ pyr_out.pyramid.size = <<560, 560>>
    /\ pyr_out.pyramid.pos = <<-60, -56>>

\* layer comes before other in the order of compositing (later is in front)
CompositedBefore(layer, other) ==
    \E i, j \in DOMAIN pyr_out.order :
        /\ pyr_out.order[i] = layer
        /\ pyr_out.order[j] = other
        /\ i < j

\* C20: in the pyramid layout the glow of the middle asset is composited
\* first, the middle asset over it, and then the first and third assets, so
\* the glow lies behind the middle asset and the flanking assets in front.
C20_PyramidCompositeOrder ==
    (pyr_pc = "done" /\ ~pyr_out.raised) =>
        /\ pyr_out.order = <<"glow", "pyramid", "left", "right">>
        /\ CompositedBefore("glow", "pyramid")
        /\ CompositedBefore("pyramid", "left")
        /\ CompositedBefore("pyramid", "right")

(***************************************************************************)
(* Claims about the title fit loop                                         *)
(***************************************************************************)
\* the title as measured at a given ratio on the harness canvas
TitleAt(ratio) == measure_text_block(title_lines, ratio, text_canvas[2])

\* the measurement fits the width bound and, with a provider, the height bound
WithinBox(m) ==
    /\ m.w <= IntMulRatio(text_canvas[1], 92, 100)
    /\ HasProvider => m.h <= MaxTitleHeight(Area)

\* steps a call in the text block section can still take: the iterations left
\* in range(10), the loop exit and the four steps after the loop
StepsLeft ==
    CASE text_pc = "fit"      -> (10 - text_iter) + 5
      [] text_pc = "recalc"   -> 4
      [] text_pc = "provider" -> 3
      [] text_pc = "position" -> 2
      [] text_pc = "draw"     -> 1
      [] OTHER                -> 0

\* C4: the title fit loop performs at most 10 measure-and-rescale iterations
\* and always ends: every step of a call lowers the number of steps left,
\* which is never negative, so the loop cannot run on.  A loop that used all
\* 10 iterations without a fit is left with the ratio of its last rescale,
\* which stays the ratio of the title until the call returns.
C4_TitleFitLoopBounded ==
    /\ [](text_iter <= 10 /\ StepsLeft >= 0)
    /\ [](text_pc \in {"recalc", "provider", "position", "draw", "done"}
            => (title_fit \/ text_iter = 10))
    /\ [][StepsLeft' < StepsLeft]_vars
    /\ [][text_pc # "fit" => title_ratio' = title_ratio]_vars

\* C4 witness: a call has returned after the loop used all 10 iterations
\* without a fit and kept a ratio at which the title still does not fit.
C4_Witness ==
    /\ text_pc = "done"
    /\ text_iter = 10
    /\ ~title_fit
    /\ ~WithinBox(TitleAt(title_ratio))

\* C5: the title ratio used for drawing is never below 0.05 of the canvas
\* height and the provider ratio never below 0.025.
C5_RatioFloors ==
    text_pc = "done" =>
        /\ title_ratio >= 50000
        /\ HasProvider => provider_ratio >= 25000

\* the title is too wide at the ratio 0.15
TooWideAtStart == TitleAt(150000).w > IntMulRatio(text_canvas[1], 92, 100)

\* the title set at the minimum font size of one pixel
TitleAtMinimum == TitleAt(0)

\* C6 (as claimed): every title too wide at the starting ratio 0.15 leaves the
\* loop within 10 iterations with a width of at most 0.92 x canvas width and,
\* with a provider, a height of at most the height left for the title.
C6_Original ==
    (text_pc = "done" /\ TooWideAtStart) =>
        /\ text_iter <= 10
        /\ WithinBox(title_meas)

\* C6 (amended): a title too wide at the starting ratio 0.15 whose width at
\* the minimum font size (1 px) is within 0.92 x canvas width leaves the loop
\* within 10 iterations with its width within that bound; with a provider its
\* height is within the height left for the title as well when the title is a
\* single line that fits that height at 1 px.
C6_TitleFitConverges ==
    (text_pc = "done" /\ TooWideAtStart
        /\ TitleAtMinimum.w <= IntMulRatio(text_canvas[1], 92, 100)) =>
        /\ text_iter <= 10
        /\ title_meas.w <= IntMulRatio(text_canvas[1], 92, 100)
        /\ (title_lines.n = 1 /\ WithinBox(TitleAtMinimum)) => WithinBox(title_meas)

\* C6 witness: a title too wide at the start was rescaled and then left the
\* loop through its break, fitting width and height next to a provider.
C6_Witness ==
    /\ text_pc = "done"
    /\ TooWideAtStart
    /\ HasProvider
    /\ title_fit
    /\ text_iter >= 2
    /\ WithinBox(title_meas)

(***************************************************************************)
(* Claims about the band colour                                            *)
(***************************************************************************)
\* the claim's test: channel variance above 30 and brightness above 100
ClaimChromatic(col) ==
    LET sum == col[1] + col[2] + col[3]
    IN  /\ Abs(3 * col[1] - sum) + Abs(3 * col[2] - sum) + Abs(3 * col[3] - sum) > 3 * 30
        /\ sum > 100
ClaimMidBright(col) == 30 < col[1] + col[2] + col[3] /\ col[1] + col[2] + col[3] < 700

\* index i comes before index j when the palette is scanned from most to
\* least frequent (equal counts keep the order of the palette)
ScannedBefore(i, j) ==
    \/ band_colors[i][1] > band_colors[j][1]
    \/ band_colors[i][1] = band_colors[j][1] /\ i < j

\* the colour satisfying test P that the scan meets first, if any
IsFirstSatisfying(col, P(_)) ==
    \E i \in DOMAIN band_colors :
        /\ band_colors[i][2] = col
        /\ P(col)
        /\ \A j \in DOMAIN band_colors :
              (j # i /\ P(band_colors[j][2])) => ScannedBefore(i, j)

AutoDetected == band_pc = "done" /\ band_out.drawn /\ band_out.detected

HasChromatic == \E i \in DOMAIN band_colors : ClaimChromatic(band_colors[i][2])
HasMidBright == \E i \in DOMAIN band_colors : ClaimMidBright(band_colors[i][2])

\* C7 (as claimed): auto-detection returns the first chromatic colour of the
\* palette in frequency order when there is one, and the neutral fallback
\* (50, 50, 50) when there is none.
C7_Original ==
    AutoDetected =>
        /\ HasChromatic => IsFirstSatisfying(band_out.rgb, ClaimChromatic)
        /\ ~HasChromatic => band_out.rgb = <<50, 50, 50>>

\* C7 (amended): auto-detection returns the first chromatic colour in
\* frequency order when there is one; otherwise the first colour in frequency
\* order with 30 < r+g+b < 700 when there is one; and the neutral fallback
\* (50, 50, 50) only when the palette has neither.
C7_BandColorDetection ==
    AutoDetected =>
        /\ HasChromatic => IsFirstSatisfying(band_out.rgb, ClaimChromatic)
        /\ (~HasChromatic /\ HasMidBright)
              => IsFirstSatisfying(band_out.rgb, ClaimMidBright)
        /\ (~HasChromatic /\ ~HasMidBright) => band_out.rgb = <<50, 50, 50>>

\* C7 witness: the palette lists a chromatic colour and then a more frequent
\* chromatic colour, and the detection returned the more frequent one.
C7_Witness ==
    /\ AutoDetected
    /\ Len(band_colors) = 2
    /\ ClaimChromatic(band_colors[1][2]) /\ ClaimChromatic(band_colors[2][2])
    /\ band_colors[2][1] > band_colors[1][1]
    /\ band_out.rgb = band_colors[2][2]

\* C8: with the band enabled and a manual colour given, the core, medium and
\* outer layers are all filled with exactly that RGB triple, their alphas
\* differ, and auto-detection did not run.
C8_ManualBandColor ==
    (band_pc = "done" /\ blur_enabled /\ band_color # None) =>
        /\ band_out.drawn
        /\ ~band_out.detected
        /\ \A layer \in {band_out.core, band_out.mid, band_out.outer} :
              <<layer[1], layer[2], layer[3]>> = band_color
        /\ band_out.core[4] # band_out.mid[4]
        /\ band_out.mid[4] # band_out.outer[4]
        /\ band_out.core[4] # band_out.outer[4]

\* C8 witness: a manual colour was used although the palette's own dominant
\* colour is a different one.
C8_Witness ==
    /\ band_pc = "done" /\ blur_enabled
    /\ band_color = <<200, 50, 50>>
    /\ DetectBandColor(band_colors) # band_color
    /\ band_out.core = <<200, 50, 50, 255>>

(***************************************************************************)
(* Claims about the background cover-fit                                   *)
(***************************************************************************)
\* C3: for a background of any aspect ratio the cover-fit resizes it to at
\* least the canvas size in both directions and the crop window lies inside
\* the resized image, so the fitted canvas has exactly the canvas size and no
\* uncovered (transparent) pixel.
C3_CoverFitCovers ==
    fit_pc = "done" =>
        /\ fit_out.new[1] >= fit_out.canvas[1]
        /\ fit_out.new[2] >= fit_out.canvas[2]
        /\ fit_out.box[1] >= 0 /\ fit_out.box[2] >= 0
        /\ fit_out.box[3] <= fit_out.new[1]
        /\ fit_out.box[4] <= fit_out.new[2]
        /\ fit_out.size = fit_out.canvas
        /\ fit_out.opaque

(***************************************************************************)
(* Claims about alpha_composite                                            *)
(***************************************************************************)
\* base pixels covered by the overlay rectangle translated by pos
AcIntersection ==
    {px \in (0..(ac_base[1] - 1)) \X (0..(ac_base[2] - 1)) :
        /\ ac_pos[1] <= px[1] /\ px[1] < ac_pos[1] + ac_overlay[1]
        /\ ac_pos[2] <= px[2] /\ px[2] < ac_pos[2] + ac_overlay[2]}

\* C1: for every base size, overlay size and offset, alpha_composite never
\* raises, writes only base pixels inside the intersection of the translated
\* overlay rectangle with the base, and writes nothing when that intersection
\* is empty.
C1_CompositeClipped ==
    ac_pc = "done" =>
        /\ ~ac_raised
        /\ ac_touched \subseteq AcIntersection
        /\ (AcIntersection = {} => ac_touched = {})

\* C1 witness: a call with a negative x offset and an overlay reaching past the
\* bottom edge wrote a non-empty, proper part of the base.
C1_Witness ==
    /\ ac_pc = "done"
    /\ ac_pos[1] < 0
    /\ ac_pos[2] + ac_overlay[2] > ac_base[2]
    /\ ac_touched # {}
    /\ Cardinality(ac_touched) < ac_base[1] * ac_base[2]

====
